---- MODULE Spec2Model ----
(***************************************************************************)
(* AuthDecode halo2 backend: the prover's commitment functions, the prove  *)
(* driver and the instance / advice layout of the AuthDecode circuit.      *)
(*                                                                         *)
(* Representation.  A Vec<bool> is a sequence of BOOLEAN.  A field element *)
(* that is obtained by packing bits is the set of the exponents of its     *)
(* binary expansion ({0, 3} is 9); every packed value is below 2^253 or    *)
(* 2^128, hence below the field modulus, so the set is the canonical       *)
(* value.  Deltas, encodings and their sums are small integers.  A Poseidon*)
(* digest is the record of its arity and its preimage (the permutation is  *)
(* an external primitive, taken to be collision free).                     *)
(***************************************************************************)
EXTENDS Integers, Sequences, FiniteSets, TLC

VARIABLES call, ret, iter, cur, advice, proofs, trace, chunk_commitments,
          store, lock, requests, notarizing, issued

\* The state of the AuthDecode prover and of the notary server.
backend_vars == <<call, ret, iter, cur, advice, proofs, trace, chunk_commitments>>
server_vars == <<store, lock, requests, notarizing, issued>>
vars == <<call, ret, iter, cur, advice, proofs, trace, chunk_commitments,
          store, lock, requests, notarizing, issued>>

(***************************************************************************)
(* Program constants.                                                      *)
(***************************************************************************)
\* circuit.rs: the amount of field elements decoded and hashed.
TOTAL_FIELD_ELEMENTS == 14
FULL_FIELD_ELEMENTS == 14
\* circuit.rs: advice cells with plaintext bits (and delta cells) per row.
CELLS_PER_ROW == 64
\* circuit.rs: rows the circuit uses.
USEFUL_ROWS == 56
\* circuit.rs: the size of the salt of the plaintext hash in bits.
PLAINTEXT_SALT_SIZE == 128

\* The names prover.rs imports from the circuit module.
FIELD_ELEMENTS == TOTAL_FIELD_ELEMENTS
BIT_COLUMNS == CELLS_PER_ROW
USABLE_ROWS == USEFUL_ROWS
SALT_SIZE == PLAINTEXT_SALT_SIZE
\* Bits packed into one field element.
USABLE_BITS == 253
\* Plaintext bits of one chunk (Prover::chunk_size).
CHUNK_SIZE == USABLE_BITS * FIELD_ELEMENTS
chunk_size == CHUNK_SIZE
usable_bits == USABLE_BITS

(***************************************************************************)
(* Bounds of the model.                                                    *)
(***************************************************************************)
\* The longest Vec<ProofInput> handed to prove.
MaxInputs == 3
\* By how many bits a plaintext may exceed CHUNK_SIZE.
MaxOver == 1
\* The most encodings in a chunk handed to CommitmentDataChunk::commit.
MaxChunkBits == 2
\* The largest original encoding.
MaxEncoding == 5
\* The most encodings of a CommitmentData.
MaxCommitBits == 5
\* The most requests the notary server receives.
MaxRequests == 3
\* notarization_config.max_transcript_size of the notary server.
MaxTranscript == 2
\* The width of the limits of an initialize request (usize), in bits.
UsizeBits == 2
\* The longest transcript handed to parse_value.
MaxStrLen == 4
\* The longest start_key and end_key handed to parse_value.
MaxKeyLen == 2

(***************************************************************************)
(* Library helpers.                                                        *)
(***************************************************************************)
Min(a, b) == IF a < b THEN a ELSE b

\* 2^n for n in 0..7
Pow2(n) == CASE n = 0 -> 1 [] n = 1 -> 2 [] n = 2 -> 4 [] n = 3 -> 8
             [] n = 4 -> 16 [] n = 5 -> 32 [] n = 6 -> 64 [] n = 7 -> 128

\* Iterator::collect::<Vec<_>>(): the sequence with its elements evaluated.
collect(f) == f \o <<>>

\* vec![x; n]
vec(x, n) == collect([i \in 1..n |-> x])

\* slice::chunks(n): consecutive groups of n, the last one possibly shorter.
chunks(s, n) ==
    collect([j \in 1..((Len(s) + n - 1) \div n) |->
                SubSeq(s, (j - 1) * n + 1, Min(j * n, Len(s)))])

\* The sum of f[lo..hi] (by halves, to keep the recursion shallow).
RECURSIVE SumRange(_, _, _)
SumRange(f, lo, hi) ==
    IF lo > hi THEN 0
    ELSE IF lo = hi THEN f[lo]
    ELSE LET mid == (lo + hi) \div 2
         IN  SumRange(f, lo, mid) + SumRange(f, mid + 1, hi)

SumSeq(f) == SumRange(f, 1, Len(f))

(***************************************************************************)
(* Field and bit primitives.                                               *)
(***************************************************************************)
\* utils::boolvec_to_u8vec: MSB-first bits into big-endian bytes, the first
\* byte left-padded with zero bits.
boolvec_to_u8vec(bv) ==
    LET n      == Len(bv)
        nbytes == (n + 7) \div 8
        pad    == 8 * nbytes - n
        bit(i) == IF i <= pad THEN 0 ELSE IF bv[i - pad] THEN 1 ELSE 0
    IN  collect([b \in 1..nbytes |->
            SumSeq([j \in 1..8 |-> bit(8 * (b - 1) + j) * Pow2(8 - j)])])

\* Field::from_bytes_be: the big-endian integer of the bytes.
from_bytes_be(bytes) ==
    LET n == Len(bytes)
    IN  { x \in 0..(8 * n - 1) : (bytes[n - (x \div 8)] \div Pow2(x % 8)) % 2 = 1 }

\* utils::bits_to_f: MSB-first bits into a field element.
bits_to_f(bits) == { Len(bits) - i : i \in { k \in 1..Len(bits) : bits[k] } }

\* utils::bigint_to_256bits(f_to_bigint(f)): the 256-bit expansion, MSB first.
bigint_to_256bits(f) == collect([i \in 1..256 |-> IF (256 - i) \in f THEN 1 ELSE 0])

(***************************************************************************)
(* Poseidon hash adapter.                                                  *)
(***************************************************************************)
poseidon_15(inputs) == [arity |-> 15, preimage |-> inputs]
poseidon_2(inputs) == [arity |-> 2, preimage |-> inputs]
poseidon_1(inputs) == [arity |-> 1, preimage |-> inputs]

hash_internal(inputs) ==
    CASE Len(inputs) = 15 -> [tag |-> "Ok", digest |-> poseidon_15(inputs)]
      [] Len(inputs) = 2  -> [tag |-> "Ok", digest |-> poseidon_2(inputs)]
      [] Len(inputs) = 1  -> [tag |-> "Ok", digest |-> poseidon_1(inputs)]
      [] OTHER            -> [tag |-> "Err", error |-> "WrongPoseidonInput"]

(***************************************************************************)
(* Prover backend: commitments (prover.rs).                                *)
(***************************************************************************)
Err(e) == [tag |-> "Err", error |-> e]

\* commit_plaintext with the salt hashed as the first input instead of the last.
commit_plaintext_salt_first(plaintext, rng) ==
    IF Len(plaintext) > CHUNK_SIZE
    THEN Err("InternalError")
    ELSE LET padded == plaintext \o vec(FALSE, CHUNK_SIZE - Len(plaintext))
             salt   == from_bytes_be(boolvec_to_u8vec(rng))
             groups == chunks(padded, USABLE_BITS)
             field_elements ==
                 <<salt>> \o
                 collect([j \in 1..Len(groups) |->
                             from_bytes_be(boolvec_to_u8vec(groups[j]))])
             h == hash_internal(field_elements)
         IN  IF h.tag = "Err" THEN h
             ELSE [tag |-> "Ok", digest |-> h.digest, salt |-> salt]

\* Prover::commit_plaintext; rng is the SALT_SIZE bits the thread rng yields.
commit_plaintext(plaintext, rng) ==
    IF Len(plaintext) > CHUNK_SIZE
    THEN Err("InternalError")
    ELSE LET padded == plaintext \o vec(FALSE, CHUNK_SIZE - Len(plaintext))
             salt   == from_bytes_be(boolvec_to_u8vec(rng))
             groups == chunks(padded, USABLE_BITS)
             field_elements ==
                 collect([j \in 1..Len(groups) |->
                             from_bytes_be(boolvec_to_u8vec(groups[j]))])
                 \o <<salt>>
             h == hash_internal(field_elements)
         IN  IF h.tag = "Err" THEN h
             ELSE [tag |-> "Ok", digest |-> h.digest, salt |-> salt]

\* commit_encoding_sum hashing the sum alone, without the salt it returns.
commit_encoding_sum_unsalted(encoding_sum, rng) ==
    LET salt == from_bytes_be(boolvec_to_u8vec(rng))
        h    == hash_internal(<<encoding_sum>>)
    IN  IF h.tag = "Err" THEN h
        ELSE [tag |-> "Ok", digest |-> h.digest, salt |-> salt]

\* Prover::commit_encoding_sum
commit_encoding_sum(encoding_sum, rng) ==
    LET salt == from_bytes_be(boolvec_to_u8vec(rng))
        h    == hash_internal(<<encoding_sum, salt>>)
    IN  IF h.tag = "Err" THEN h
        ELSE [tag |-> "Ok", digest |-> h.digest, salt |-> salt]

(***************************************************************************)
(* Commitment layer (commitment.rs).                                       *)
(***************************************************************************)
\* The converted encodings keep this many values (truncation).
ConvertedRange == 4

\* ActiveEncodings::convert: each encoding truncated, its bit kept.
convert(encodings) ==
    collect([i \in 1..Len(encodings) |->
        [value |-> encodings[i].value % ConvertedRange, bit |-> encodings[i].bit]])

\* ActiveEncodings::compute_sum
compute_sum(encodings) == SumSeq([i \in 1..Len(encodings) |-> encodings[i].value])

\* ActiveEncodings::plaintext
plaintext_of(encodings) == collect([i \in 1..Len(encodings) |-> encodings[i].bit])

\* CommitmentDataChunk::commit
chunk_commit(self_encodings, rng_p, rng_e) ==
    LET encodings == convert(self_encodings)
        sum       == compute_sum(encodings)
        p         == commit_plaintext(plaintext_of(encodings), rng_p)
        e         == commit_encoding_sum(sum, rng_e)
    IN  IF p.tag = "Err" THEN p
        ELSE IF e.tag = "Err" THEN e
        ELSE [tag |-> "Ok",
              plaintext_hash |-> p.digest,
              plaintext_salt |-> p.salt,
              original_encodings |-> self_encodings,
              encodings |-> encodings,
              encoding_sum |-> sum,
              encoding_sum_hash |-> e.digest,
              encoding_sum_salt |-> e.salt]

(***************************************************************************)
(* Prover backend: circuit input (prover.rs) and the bit cells the circuit *)
(* assigns (circuit.rs).                                                   *)
(***************************************************************************)
\* utils::deltas_to_matrices: each group of useful_bits deltas is left-padded
\* with zeros to 256, the padded deltas are cut into rows of CELLS_PER_ROW,
\* and the rows are transposed into columns.  Yields <<rows, columns>>.
deltas_to_matrices(deltas, useful_bits) ==
    LET groups  == chunks(deltas, useful_bits)
        padded  == collect([j \in 1..Len(groups) |->
                               vec(0, 256 - Len(groups[j])) \o groups[j]])
        rows    == collect([r \in 1..USEFUL_ROWS |-> collect([c \in 1..CELLS_PER_ROW |->
                       padded[((r - 1) \div 4) + 1][CELLS_PER_ROW * ((r - 1) % 4) + c]])])
        columns == collect([c \in 1..CELLS_PER_ROW |->
                               collect([r \in 1..USEFUL_ROWS |-> rows[r][c]])])
    IN  <<rows, columns>>

\* prepare_circuit_input padding the plaintext on the left instead of the right.
prepare_circuit_input_pad_left(input) ==
    LET instance_columns ==
            deltas_to_matrices(input.deltas, usable_bits)[2]
            \o << <<input.plaintext_hash, input.encoding_sum_hash, input.zero_sum>> >>
    IN  IF Len(input.plaintext) > chunk_size
        THEN [tag |-> "panic"]
        ELSE LET padded == vec(FALSE, chunk_size - Len(input.plaintext))
                               \o input.plaintext
                 groups == chunks(padded, usable_bits)
                 plaintext == collect([j \in 1..Len(groups) |-> bits_to_f(groups[j])])
             IN  [tag |-> "Ok",
                  instance_columns |-> instance_columns,
                  circuit |-> [plaintext |-> plaintext,
                               plaintext_salt |-> input.plaintext_salt,
                               label_sum_salt |-> input.encoding_sum_salt]]

\* prepare_circuit_input pushing the two hashes in the other order.
prepare_circuit_input_hashes_swapped(input) ==
    LET instance_columns ==
            deltas_to_matrices(input.deltas, usable_bits)[2]
            \o << <<input.encoding_sum_hash, input.plaintext_hash, input.zero_sum>> >>
    IN  IF Len(input.plaintext) > chunk_size
        THEN [tag |-> "panic"]
        ELSE LET padded == input.plaintext
                               \o vec(FALSE, chunk_size - Len(input.plaintext))
                 groups == chunks(padded, usable_bits)
                 plaintext == collect([j \in 1..Len(groups) |-> bits_to_f(groups[j])])
             IN  [tag |-> "Ok",
                  instance_columns |-> instance_columns,
                  circuit |-> [plaintext |-> plaintext,
                               plaintext_salt |-> input.plaintext_salt,
                               label_sum_salt |-> input.encoding_sum_salt]]

\* Prover::prepare_circuit_input.  A plaintext longer than the chunk makes
\* `chunk_size() - plaintext.len()` underflow: a panic when overflow checks
\* are on, and otherwise a length above isize::MAX for vec!, a panic too.
prepare_circuit_input(input) ==
    LET deltas == input.deltas
        instance_columns ==
            deltas_to_matrices(deltas, usable_bits)[2]
            \o << <<input.plaintext_hash, input.encoding_sum_hash, input.zero_sum>> >>
    IN  IF Len(input.plaintext) > chunk_size
        THEN [tag |-> "panic"]
        ELSE LET padded == input.plaintext
                               \o vec(FALSE, chunk_size - Len(input.plaintext))
                 groups == chunks(padded, usable_bits)
                 plaintext == collect([j \in 1..Len(groups) |-> bits_to_f(groups[j])])
             IN  IF Len(plaintext) # FIELD_ELEMENTS
                 THEN [tag |-> "panic"]
                 ELSE [tag |-> "Ok",
                       instance_columns |-> instance_columns,
                       circuit |-> [plaintext |-> plaintext,
                                    plaintext_salt |-> input.plaintext_salt,
                                    label_sum_salt |-> input.encoding_sum_salt]]

\* assign_bits with the bits of a limb laid out from the last column back.
assign_bits_reversed(circuit) ==
    LET bits == collect([j \in 1..FULL_FIELD_ELEMENTS |->
                            bigint_to_256bits(circuit.plaintext[j])])
    IN  collect([r \in 1..USEFUL_ROWS |-> collect([i \in 1..CELLS_PER_ROW |->
            bits[((r - 1) \div 4) + 1]
                [CELLS_PER_ROW * ((r - 1) % 4) + (CELLS_PER_ROW + 1 - i)]])])

\* AuthDecodeCircuit::synthesize, the cells of the `bits` advice columns:
\* element j is expanded into 256 bits and bit CELLS_PER_ROW * row + i of
\* the expansion is assigned to column i at row j * 4 + row.
assign_bits(circuit) ==
    LET bits == collect([j \in 1..FULL_FIELD_ELEMENTS |->
                            bigint_to_256bits(circuit.plaintext[j])])
    IN  collect([r \in 1..USEFUL_ROWS |-> collect([i \in 1..CELLS_PER_ROW |->
            bits[((r - 1) \div 4) + 1][CELLS_PER_ROW * ((r - 1) % 4) + i]])])

\* The rows of public_inputs the circuit reads (synthesize).
ZERO_SUM_ROW == 2
LABEL_SUM_HASH_ROW == 1
PLAINTEXT_HASH_ROW == 0

\* bits_to_limbs / the "compose limb" gate: limb `row` of a 256-bit expansion
\* is the sum of bit i * 2^(255 - CELLS_PER_ROW * row - i) over the row.
limb(bits, row) ==
    { 255 - (CELLS_PER_ROW * row + i) :
        i \in { x \in 0..(CELLS_PER_ROW - 1) : bits[CELLS_PER_ROW * row + x + 1] = 1 } }

\* AuthDecodeCircuit::synthesize, as far as the plaintext hash goes: the bit
\* cells, the expected limbs, the 14 sums of 4 limbs (fold_sum; the limbs of
\* one element have no power of two in common, so their sum is the union)
\* followed by the plaintext salt as the Poseidon input, the digest, and the
\* three cells copied from public_inputs.
synthesize(instance_columns, circuit) ==
    LET bits == collect([j \in 1..FULL_FIELD_ELEMENTS |->
                            bigint_to_256bits(circuit.plaintext[j])])
        expected_limbs ==
            collect([r \in 1..USEFUL_ROWS |-> limb(bits[((r - 1) \div 4) + 1], (r - 1) % 4)])
        plaintext ==
            collect([j \in 1..FULL_FIELD_ELEMENTS |->
                        UNION { expected_limbs[4 * (j - 1) + row + 1] : row \in 0..3 }])
            \o <<circuit.plaintext_salt>>
        public_inputs == instance_columns[CELLS_PER_ROW + 1]
    IN  [tag |-> "Ok",
         instance |-> instance_columns,
         bits |-> assign_bits(circuit),
         expected_limbs |-> expected_limbs,
         plaintext |-> plaintext,
         plaintext_hash |-> poseidon_15(plaintext),
         zero_sum |-> public_inputs[ZERO_SUM_ROW + 1],
         expected_label_sum_hash |-> public_inputs[LABEL_SUM_HASH_ROW + 1],
         expected_plaintext_hash |-> public_inputs[PLAINTEXT_HASH_ROW + 1]]

\* Proof::new(&transcript.finalize()): the transcript of the instance.
Proof(instance_columns) == [transcript |-> instance_columns]

(***************************************************************************)
(* The AuthDecode circuit as a constraint system (circuit.rs): the cells   *)
(* synthesize assigns, the selectors it enables, the gates of configure    *)
(* and the copy constraints, as MockProver checks them.  The witness is    *)
(* the one the tests of prover.rs handle: `plaintext` is the matrix of the *)
(* bit cells, one row of CELLS_PER_ROW cells per limb.                     *)
(***************************************************************************)
\* `let v = ...;` of the code: the value is computed once, then used by F.
bind(v, F(_)) == CHOOSE r \in { F(x) : x \in {v} } : TRUE

\* F addition of 2^k to a packed value.
RECURSIVE AddPow(_, _)
AddPow(S, k) == IF k \in S THEN AddPow(S \ {k}, k + 1) ELSE S \cup {k}

\* F addition of two packed values (before reduction).
RECURSIVE FAdd(_, _)
FAdd(A, B) ==
    IF A \cap B = {} THEN A \cup B
    ELSE LET k == CHOOSE x \in A \cap B : TRUE
         IN  FAdd(AddPow(A \ {k}, k + 1), B \ {k})

\* F addition: of packed values, or of the small values of deltas and sums.
plus(packed, a, b) == IF packed THEN FAdd(a, b) ELSE a + b

\* The sum over the cells of a limb, each cell (0, 1 or 2) times the power
\* of two of its place: cells[i] stands at exponent top - (i - 1).
cells_to_f(cells, top) ==
    FAdd({ top - (i - 1) : i \in { x \in 1..Len(cells) : cells[x] = 1 } },
         { top - (i - 1) + 1 : i \in { x \in 1..Len(cells) : cells[x] = 2 } })

\* utils::bits_to_limbs: the four limbs of a 256-bit expansion, each the
\* value of its 64 bits, MSB first, shifted left to its place (by 192, 128,
\* 64 and 0).
bits_to_limbs(bits) ==
    collect([l \in 1..4 |->
        LET c == SubSeq(bits, CELLS_PER_ROW * (l - 1) + 1, CELLS_PER_ROW * l)
            v == cells_to_f(c, CELLS_PER_ROW - 1)
        IN  { e + CELLS_PER_ROW * (4 - l) : e \in v }])

\* AssignedCell: a cell of an advice column with the value assigned to it.
AssignedCell(column, row, value) == [column |-> column, row |-> row, value |-> value]

\* fold_sum leaving the last cell of a chunk out of the sum.
fold_sum_skips_last(chunks_, row_offset, packed) ==
    collect([i \in 1..Len(chunks_) |->
        LET size == Len(chunks_[i])
            row  == row_offset + (i - 1)
            v(j) == chunks_[i][j].value
            zero == IF packed THEN {} ELSE 0
            sum  == IF size = 4
                    THEN plus(packed, plus(packed, plus(packed, zero, v(1)), v(2)), v(3))
                    ELSE IF size = 2
                    THEN plus(packed, zero, v(1))
                    ELSE zero
        IN  [row |-> row, size |-> size, packed |-> packed,
             assert_ok |-> (size = 2 \/ size = 4),
             from |-> chunks_[i],
             copied |-> collect([j \in 1..size |->
                           AssignedCell(<<"scratch_space", j - 1>>, row, v(j))]),
             sum |-> AssignedCell(<<"scratch_space", 4>>, row, sum),
             selector |-> IF size = 4 THEN "sum4" ELSE "sum2"]])

\* AuthDecodeCircuit::fold_sum: chunk i (from 0) is copied onto the row
\* row_offset + i of the scratch space, its sum is assigned to the 5th
\* scratch column of that row, and sum4 or sum2 is enabled there.
fold_sum(chunks_, row_offset, packed) ==
    collect([i \in 1..Len(chunks_) |->
        LET size == Len(chunks_[i])
            row  == row_offset + (i - 1)
            v(j) == chunks_[i][j].value
            zero == IF packed THEN {} ELSE 0
            sum  == IF size = 4
                    THEN plus(packed, plus(packed, plus(packed, plus(packed, zero, v(1)), v(2)), v(3)), v(4))
                    ELSE IF size = 2
                    THEN plus(packed, plus(packed, zero, v(1)), v(2))
                    ELSE zero
        IN  [row |-> row, size |-> size, packed |-> packed,
             assert_ok |-> (size = 2 \/ size = 4),
             from |-> chunks_[i],
             copied |-> collect([j \in 1..size |->
                           AssignedCell(<<"scratch_space", j - 1>>, row, v(j))]),
             sum |-> AssignedCell(<<"scratch_space", 4>>, row, sum),
             selector |-> IF size = 4 THEN "sum4" ELSE "sum2"]])

\* The sums a fold_sum call returns.
sums_of(rows) == collect([i \in 1..Len(rows) |-> rows[i].sum])

\* compute_58_cell_sum leaving the last chunk of level 2 out, as its
\* commented-out lines did.
compute_58_cell_sum_without_last_chunk(cells, row_offset) ==
    bind(chunks(cells, 4), LAMBDA l1_chunks :
    bind(fold_sum(l1_chunks, row_offset, FALSE), LAMBDA l1 :
    bind(chunks(sums_of(l1), 4), LAMBDA all_l2_chunks :
    bind(SubSeq(all_l2_chunks, 1, Len(all_l2_chunks) - 1), LAMBDA l2_chunks :
    bind(fold_sum(l2_chunks, row_offset + Len(l1_chunks), FALSE), LAMBDA l2 :
    bind(chunks(sums_of(l2), 4), LAMBDA l3_chunks :
    bind(fold_sum(l3_chunks, row_offset + Len(l1_chunks) + Len(l2_chunks), FALSE), LAMBDA l3 :
        LET original_offset == row_offset
            offset == row_offset + Len(l1_chunks) + Len(l2_chunks) + 1
            final_sum == l3[1].sum
        IN  [sum |-> final_sum, offset |-> offset - original_offset,
             rows |-> l1 \o l2 \o l3])))))))

\* compute_58_cell_sum not counting the row of its last fold_sum call.
compute_58_cell_sum_forgets_last_row(cells, row_offset) ==
    bind(chunks(cells, 4), LAMBDA l1_chunks :
    bind(fold_sum(l1_chunks, row_offset, FALSE), LAMBDA l1 :
    bind(chunks(sums_of(l1), 4), LAMBDA l2_chunks :
    bind(fold_sum(l2_chunks, row_offset + Len(l1_chunks), FALSE), LAMBDA l2 :
    bind(chunks(sums_of(l2), 4), LAMBDA l3_chunks :
    bind(fold_sum(l3_chunks, row_offset + Len(l1_chunks) + Len(l2_chunks), FALSE), LAMBDA l3 :
        [sum |-> l3[1].sum, offset |-> Len(l1_chunks) + Len(l2_chunks),
         rows |-> l1 \o l2 \o l3]))))))

\* AuthDecodeCircuit::compute_58_cell_sum: the sum of the 56 cells by three
\* levels of fold_sum, and the amount of rows used.
compute_58_cell_sum(cells, row_offset) ==
    bind(chunks(cells, 4), LAMBDA l1_chunks :
    bind(fold_sum(l1_chunks, row_offset, FALSE), LAMBDA l1 :
    bind(chunks(sums_of(l1), 4), LAMBDA l2_chunks :
    bind(fold_sum(l2_chunks, row_offset + Len(l1_chunks), FALSE), LAMBDA l2 :
    bind(chunks(sums_of(l2), 4), LAMBDA l3_chunks :
    bind(fold_sum(l3_chunks, row_offset + Len(l1_chunks) + Len(l2_chunks), FALSE), LAMBDA l3 :
        LET original_offset == row_offset
            offset == row_offset + Len(l1_chunks) + Len(l2_chunks) + 1
            final_sum == l3[1].sum
        IN  [sum |-> final_sum, offset |-> offset - original_offset,
             rows |-> l1 \o l2 \o l3]))))))

\* The selectors and their gates, in the order configure creates the gates;
\* three_bits_zero is the gate of the circuit module prover.rs is tested
\* against.
GateNames ==
    <<"dot product", "binary check", "compose limb 0", "compose limb 1",
      "compose limb 2", "compose limb 3", "sum4", "sum2", "three_bits_zero">>

\* three_bits_zero enabled on the row of the low limb of every element.
selector_three_bits_zero_low_limb == { 4 * e + 3 : e \in 0..(FIELD_ELEMENTS - 1) }

\* The rows on which the three_bits_zero selector is enabled: the row of the
\* high limb of every field element.
selector_three_bits_zero == { 4 * e : e \in 0..(FIELD_ELEMENTS - 1) }

\* The deltas the circuit keeps (the fourth argument of
\* AuthDecodeCircuit::new): the rows of the matrix of deltas.
circuit_deltas(input) == deltas_to_matrices(input.deltas, usable_bits)[1]

\* The label sum without the dot products.
label_sum_chunks_without_dot_product(dot_product, zero_sum) == << <<zero_sum, zero_sum>> >>

\* synthesize, "add zero_sum to all dot_products to get label_sum": the one
\* chunk handed to fold_sum.
label_sum_chunks(dot_product, zero_sum) == << <<dot_product, zero_sum>> >>

\* The "main" region of synthesize: rows j * 4 + row hold the bits of limb
\* `row` of element j, the expected limb and the expected dot product, with
\* binary check, compose limb `row` and dot product enabled; the scratch
\* space holds the tree of sums of the dot products, the copy of zero_sum,
\* the label sum and the 14 sums of 4 limbs.
synthesize_main(w, public_inputs) ==
    bind(collect([j \in 1..FULL_FIELD_ELEMENTS |->
            w.plaintext[4 * j - 3] \o w.plaintext[4 * j - 2]
                \o w.plaintext[4 * j - 1] \o w.plaintext[4 * j]]), LAMBDA element_bits :
    bind(collect([j \in 1..FULL_FIELD_ELEMENTS |-> bits_to_limbs(element_bits[j])]),
         LAMBDA limbs :
    bind(collect([n \in 1..(4 * FULL_FIELD_ELEMENTS) |->
            LET j   == (n - 1) \div 4
                row == (n - 1) % 4
                dot_product ==
                    SumSeq([i \in 1..CELLS_PER_ROW |->
                        w.deltas[j * 4 + row + 1][i]
                            * element_bits[j + 1][CELLS_PER_ROW * row + i]])
            IN  [at   |-> j * 4 + row,
                 bits |-> SubSeq(element_bits[j + 1], CELLS_PER_ROW * row + 1,
                                 CELLS_PER_ROW * row + CELLS_PER_ROW),
                 limb |-> AssignedCell(<<"expected_limbs", 0>>, j * 4 + row,
                                       limbs[j + 1][row + 1]),
                 compose |-> row,
                 dot_product |-> AssignedCell(<<"dot_product", 0>>, j * 4 + row,
                                              dot_product)]]), LAMBDA lines :
    bind(collect([n \in 1..Len(lines) |-> lines[n].dot_product]),
         LAMBDA assigned_dot_products :
    bind(compute_58_cell_sum(assigned_dot_products, 0), LAMBDA tree :
    bind(AssignedCell(<<"scratch_space", 0>>, tree.offset, public_inputs[ZERO_SUM_ROW + 1]),
         LAMBDA zero_sum :
    bind(label_sum_chunks(tree.sum, zero_sum), LAMBDA label_chunks :
    bind(fold_sum(label_chunks, tree.offset + 1, FALSE), LAMBDA label :
    bind(chunks(collect([n \in 1..Len(lines) |-> lines[n].limb]), 4), LAMBDA limb_chunks :
    bind(collect([c \in 1..Len(limb_chunks) |->
            bind(<<limb_chunks[c]>>, LAMBDA one :
                fold_sum(one, tree.offset + 2 + (c - 1), TRUE)[1])]), LAMBDA elements :
        LET assigned_plaintext_salt == AssignedCell(<<"salts", 0>>, 0, w.plaintext_salt)
            assigned_label_sum_salt == AssignedCell(<<"salts", 0>>, 1, w.label_sum_salt)
        IN  [lines |-> lines,
             salts |-> <<assigned_plaintext_salt, assigned_label_sum_salt>>,
             tree_offset |-> tree.offset,
             zero_sum |-> zero_sum,
             folds |-> tree.rows \o label \o elements,
             label_sum |-> <<label[1].sum, assigned_label_sum_salt>>,
             plaintext |-> sums_of(elements) \o <<assigned_plaintext_salt>>]))))))))))

\* The cells a sequence of fold_sum rows assigns, in the order of assignment.
RECURSIVE cells_of(_)
cells_of(rows) ==
    IF rows = <<>> THEN <<>>
    ELSE rows[1].copied \o <<rows[1].sum>> \o cells_of(Tail(rows))

\* The copy constraints a sequence of fold_sum rows makes (copy_advice).
RECURSIVE copies_of(_)
copies_of(rows) ==
    IF rows = <<>> THEN <<>>
    ELSE collect([j \in 1..rows[1].size |->
             [name |-> "copy_advice", a |-> rows[1].from[j], b |-> rows[1].copied[j]]])
         \o copies_of(Tail(rows))

\* The values of a sequence of cells.
values_of(cells) == collect([i \in 1..Len(cells) |-> cells[i].value])

\* What a Poseidon gadget copies into its own region: its input cells.
hash_inputs(name, cells) ==
    collect([i \in 1..Len(cells) |->
        [name |-> name, a |-> cells[i],
         b |-> AssignedCell(<<name, i>>, 0, cells[i].value)]])

\* The label sum hash left without its constrain_equal.
bind_label_sum_hash_unconstrained(label_sum, public_inputs) ==
    LET output   == AssignedCell(<<"poseidon_rate2", 0>>, 0, poseidon_2(values_of(label_sum)))
        expected == AssignedCell(<<"advice_from_instance", 0>>, 0,
                                 public_inputs[LABEL_SUM_HASH_ROW + 1])
    IN  [output |-> output, expected |-> expected,
         copies |-> hash_inputs("poseidon_rate2 input", label_sum)]

\* The label sum hash bound to the row of the plaintext hash.
bind_label_sum_hash_to_plaintext_row(label_sum, public_inputs) ==
    LET output   == AssignedCell(<<"poseidon_rate2", 0>>, 0, poseidon_2(values_of(label_sum)))
        expected == AssignedCell(<<"advice_from_instance", 0>>, 0,
                                 public_inputs[PLAINTEXT_HASH_ROW + 1])
    IN  [output |-> output, expected |-> expected,
         copies |-> hash_inputs("poseidon_rate2 input", label_sum)
                    \o << [name |-> "label sum hash", a |-> output, b |-> expected] >>]

\* synthesize, "Hash the label sum and constrain the digest to match the
\* public input".
bind_label_sum_hash(label_sum, public_inputs) ==
    LET output   == AssignedCell(<<"poseidon_rate2", 0>>, 0, poseidon_2(values_of(label_sum)))
        expected == AssignedCell(<<"advice_from_instance", 0>>, 0,
                                 public_inputs[LABEL_SUM_HASH_ROW + 1])
    IN  [output |-> output, expected |-> expected,
         copies |-> hash_inputs("poseidon_rate2 input", label_sum)
                    \o << [name |-> "label sum hash", a |-> output, b |-> expected] >>]

\* The plaintext hash left without its constrain_equal.
bind_plaintext_hash_unconstrained(plaintext, public_inputs) ==
    LET output   == AssignedCell(<<"poseidon_rate15", 0>>, 0, poseidon_15(values_of(plaintext)))
        expected == AssignedCell(<<"advice_from_instance", 0>>, 1,
                                 public_inputs[PLAINTEXT_HASH_ROW + 1])
    IN  [output |-> output, expected |-> expected,
         copies |-> hash_inputs("poseidon_rate15 input", plaintext)]

\* The plaintext hash with the expected cell constrained to equal itself.
bind_plaintext_hash_expected_twice(plaintext, public_inputs) ==
    LET output   == AssignedCell(<<"poseidon_rate15", 0>>, 0, poseidon_15(values_of(plaintext)))
        expected == AssignedCell(<<"advice_from_instance", 0>>, 1,
                                 public_inputs[PLAINTEXT_HASH_ROW + 1])
    IN  [output |-> output, expected |-> expected,
         copies |-> hash_inputs("poseidon_rate15 input", plaintext)
                    \o << [name |-> "plaintext hash", a |-> expected, b |-> expected] >>]

\* synthesize, "Hash the plaintext and constrain the digest to match the
\* public input".
bind_plaintext_hash(plaintext, public_inputs) ==
    LET output   == AssignedCell(<<"poseidon_rate15", 0>>, 0, poseidon_15(values_of(plaintext)))
        expected == AssignedCell(<<"advice_from_instance", 0>>, 1,
                                 public_inputs[PLAINTEXT_HASH_ROW + 1])
    IN  [output |-> output, expected |-> expected,
         copies |-> hash_inputs("poseidon_rate15 input", plaintext)
                    \o << [name |-> "plaintext hash", a |-> output, b |-> expected] >>]

\* MockProver::run: the circuit is synthesized over the instance: the main
\* region, then the two hashes.
MockProver_run(w, instance_columns) ==
    bind(instance_columns[CELLS_PER_ROW + 1], LAMBDA public_inputs :
    bind(synthesize_main(w, public_inputs), LAMBDA main :
    bind(bind_label_sum_hash(main.label_sum, public_inputs), LAMBDA label_sum_hash :
    bind(bind_plaintext_hash(main.plaintext, public_inputs), LAMBDA plaintext_hash :
    bind(SubSeq(main.folds, 1, Len(main.folds) - 1 - FULL_FIELD_ELEMENTS), LAMBDA tree_rows :
    bind(SubSeq(main.folds, Len(tree_rows) + 1, Len(main.folds)), LAMBDA rest_rows :
        [tag |-> "Ok",
         instance |-> instance_columns,
         lines |-> main.lines,
         salts |-> main.salts,
         folds |-> main.folds,
         tree_offset |-> main.tree_offset,
         zero_sum |-> main.zero_sum,
         scratch |-> cells_of(tree_rows) \o <<main.zero_sum>> \o cells_of(rest_rows),
         label_sum |-> main.label_sum,
         plaintext |-> main.plaintext,
         label_sum_hash |-> label_sum_hash.output,
         plaintext_hash |-> plaintext_hash.output,
         copies |-> copies_of(main.folds) \o label_sum_hash.copies
                    \o plaintext_hash.copies]))))))

\* The value of a cell when synthesis is over: a scratch cell holds what was
\* assigned to it last.
cell_value(a, c) ==
    IF c.column[1] = "scratch_space"
    THEN LET idx == { i \in 1..Len(a.scratch) :
                        a.scratch[i].column = c.column /\ a.scratch[i].row = c.row }
             last == CHOOSE m \in idx : \A k \in idx : k <= m
         IN  a.scratch[last].value
    ELSE c.value

\* The dot product gate with its selector enabled on no row.
gate_dot_product_not_enabled(a, line) == TRUE

\* The dot product gate adding each delta to its bit instead of multiplying.
gate_dot_product_adds(a, line) ==
    SumSeq([i \in 1..CELLS_PER_ROW |-> a.instance[i][line.at + 1] + line.bits[i]])
        = line.dot_product.value

\* gate "dot product" at a row: the deltas of the instance times the bits.
gate_dot_product(a, line) ==
    SumSeq([i \in 1..CELLS_PER_ROW |-> a.instance[i][line.at + 1] * line.bits[i]])
        = line.dot_product.value

\* The binary check with a third factor, which lets a cell of 2 through.
gate_binary_check_lets_two(line, i) ==
    line.bits[i + 1] * (line.bits[i + 1] - 1) * (line.bits[i + 1] - 2) = 0

\* gate "binary check" at a row, constraint i.
gate_binary_check(line, i) == line.bits[i + 1] * line.bits[i + 1] - line.bits[i + 1] = 0

\* The compose limb gates all with the weights of the high limb.
gate_compose_limb_high_weights(line, idx) ==
    LET top == 255
    IN  FAdd({ top - i : i \in { x \in 0..(CELLS_PER_ROW - 1) : line.bits[x + 1] = 1 } },
             { top - i + 1 : i \in { x \in 0..(CELLS_PER_ROW - 1) : line.bits[x + 1] = 2 } })
            = line.limb.value

\* gate "compose limb" idx at a row.
gate_compose_limb(line, idx) ==
    LET top == 255 - CELLS_PER_ROW * idx
    IN  FAdd({ top - i : i \in { x \in 0..(CELLS_PER_ROW - 1) : line.bits[x + 1] = 1 } },
             { top - i + 1 : i \in { x \in 0..(CELLS_PER_ROW - 1) : line.bits[x + 1] = 2 } })
            = line.limb.value

\* gates "sum4" and "sum2" at the row of a fold_sum chunk.
gate_sum(a, f) ==
    LET v(j) == cell_value(a, AssignedCell(<<"scratch_space", j - 1>>, f.row, 0))
        zero == IF f.packed THEN {} ELSE 0
        sum  == IF f.selector = "sum4"
                THEN plus(f.packed, plus(f.packed, plus(f.packed,
                         plus(f.packed, zero, v(1)), v(2)), v(3)), v(4))
                ELSE plus(f.packed, plus(f.packed, zero, v(1)), v(2))
    IN  sum = cell_value(a, AssignedCell(<<"scratch_space", 4>>, f.row, 0))

\* gate "three_bits_zero" at a row, constraint i.
gate_three_bits_zero(line, i) == line.bits[i + 1] = 0

Failure(gate, row, index, ok) == [gate |-> gate, row |-> row, index |-> index, ok |-> ok]
Failed(x) == ~x.ok

\* MockProver::verify: the constraints that are not satisfied, gate after
\* gate in the order of their creation, row after row, and after the gates
\* the copy constraints.
verify(a) ==
    LET n == Len(a.lines)
        dot == collect([r \in 1..n |->
                   Failure("dot product", a.lines[r].at, 0, gate_dot_product(a, a.lines[r]))])
        bin == collect([k \in 1..(n * CELLS_PER_ROW) |->
                   LET r == ((k - 1) \div CELLS_PER_ROW) + 1
                       i == (k - 1) % CELLS_PER_ROW
                   IN  Failure("binary check", a.lines[r].at, i,
                               gate_binary_check(a.lines[r], i))])
        compose(idx) ==
               collect([r \in 1..n |->
                   Failure(GateNames[3 + idx], a.lines[r].at, 0,
                           a.lines[r].compose # idx \/ gate_compose_limb(a.lines[r], idx))])
        sum(sel) ==
               collect([r \in 1..Len(a.folds) |->
                   Failure(sel, a.folds[r].row, 0,
                           a.folds[r].selector # sel \/ gate_sum(a, a.folds[r]))])
        top == collect([k \in 1..(n * 3) |->
                   LET r == ((k - 1) \div 3) + 1
                       i == (k - 1) % 3
                   IN  Failure("three_bits_zero", a.lines[r].at, i,
                               a.lines[r].at \notin selector_three_bits_zero
                               \/ gate_three_bits_zero(a.lines[r], i))])
        perm == collect([k \in 1..Len(a.copies) |->
                   Failure(a.copies[k].name, a.copies[k].b.row, 0,
                           cell_value(a, a.copies[k].a) = cell_value(a, a.copies[k].b))])
        failures ==
            SelectSeq(dot \o bin \o compose(0) \o compose(1) \o compose(2) \o compose(3)
                          \o sum("sum4") \o sum("sum2") \o top \o perm,
                      Failed)
    IN  [tag |-> IF failures = <<>> THEN "Ok" ELSE "Err", failures |-> failures]

(***************************************************************************)
(* Inputs.                                                                 *)
(***************************************************************************)
Patterns == {"zeros", "ones", "alt", "third"}

Pattern(p, i) ==
    CASE p = "zeros" -> FALSE
      [] p = "ones"  -> TRUE
      [] p = "alt"   -> i % 2 = 1
      [] p = "third" -> i % 3 = 0

Bits(p, n) == collect([i \in 1..n |-> Pattern(p, i)])

PlaintextLens ==
    {0, 1, USABLE_BITS, USABLE_BITS + 1, CHUNK_SIZE - 1, CHUNK_SIZE}
    \cup { CHUNK_SIZE + d : d \in 1..MaxOver }

Plaintexts == { Bits(p, n) : p \in Patterns, n \in PlaintextLens }

\* What the rng may yield for a salt: SALT_SIZE bits.
OneBit(k) == collect([i \in 1..SALT_SIZE |-> i = k])
RngBits ==
    { Bits("zeros", SALT_SIZE), Bits("ones", SALT_SIZE), Bits("alt", SALT_SIZE) }
    \cup { OneBit(k) : k \in {1, 3, 4, SALT_SIZE} }

Encodings == [value : {1, ConvertedRange, MaxEncoding}, bit : BOOLEAN]

RECURSIVE SeqsUpTo(_, _)
SeqsUpTo(S, n) ==
    IF n = 0 THEN { <<>> }
    ELSE LET shorter == SeqsUpTo(S, n - 1)
         IN  shorter \cup { Append(s, x) : s \in { t \in shorter : Len(t) = n - 1 }, x \in S }

EncodingChunks == SeqsUpTo(Encodings, MaxChunkBits)

\* A ProofInput as the commitment layer builds it: the zero label of every
\* bit is 1, the delta of bit k is k (0 in the padding), the hashes are the
\* two commitments.
ProofInput(plaintext, rng_p, rng_e) ==
    LET deltas   == collect([k \in 1..CHUNK_SIZE |-> IF k <= Len(plaintext) THEN k ELSE 0])
        zero_sum == Len(plaintext)
        sum      == zero_sum
                    + SumSeq([k \in 1..Min(Len(plaintext), CHUNK_SIZE) |->
                                 IF plaintext[k] THEN deltas[k] ELSE 0])
        p == commit_plaintext(SubSeq(plaintext, 1, Min(Len(plaintext), CHUNK_SIZE)), rng_p)
        e == commit_encoding_sum(sum, rng_e)
    IN  [plaintext |-> plaintext,
         plaintext_salt |-> p.salt,
         encoding_sum_salt |-> e.salt,
         deltas |-> deltas,
         plaintext_hash |-> p.digest,
         encoding_sum_hash |-> e.digest,
         zero_sum |-> zero_sum]

ProofInputs ==
    { ProofInput(Bits("alt", CHUNK_SIZE), OneBit(4), OneBit(SALT_SIZE)),
      ProofInput(Bits("third", USABLE_BITS + 1), OneBit(SALT_SIZE), OneBit(4)),
      ProofInput(Bits("ones", 1), OneBit(4), OneBit(4)) }
    \cup { ProofInput(Bits("alt", CHUNK_SIZE + d), OneBit(4), OneBit(4)) : d \in 1..MaxOver }

ProveInputs == SeqsUpTo(ProofInputs, MaxInputs)

\* A field element plus F::one(), for a digest.
Succ(digest) == [succ |-> digest]

\* The cells (row, column) the tests change.
MockCells == { <<3, 63>>, <<12, 34>>, <<0, 3>>, <<55, 63>>, <<4, 1>> }

\* By how much a delta is changed.
DeltaChanges == {1, 1000, -1}

\* What a test changes between prepare_circuit_input and MockProver::run.
Change(kind, row, col, d) == [kind |-> kind, row |-> row, col |-> col, d |-> d]

Tampers ==
    { Change("none", 0, 0, 0) }
    \cup { Change("plaintext", c[1], c[2], 0) : c \in MockCells }
    \cup { Change(k, 0, 0, 1) :
             k \in {"plaintext_salt", "encoding_sum_salt",
                    "plaintext_hash", "encoding_sum_hash", "zero_sum"} }
    \cup { Change("delta", c[1], c[2], d) : c \in MockCells, d \in DeltaChanges }
    \cup { Change(k, c[1], c[2], 0) : k \in {"bit_two", "bit_two_forged"}, c \in MockCells }
    \cup { Change(k, 4 * e, c, 0) :
             k \in {"top_bit", "top_bit_forged"}, e \in {0, FIELD_ELEMENTS - 1}, c \in 0..2 }

\* The fixture proof_input with the change of a test applied: the instance
\* columns and the circuit handed to MockProver::run.  A forged change also
\* sets the two public hashes to the digests of the changed witness.
mock_input(input, t) ==
    bind(prepare_circuit_input(input), LAMBDA p :
    bind([plaintext |-> assign_bits(p.circuit),
          plaintext_salt |-> p.circuit.plaintext_salt,
          label_sum_salt |-> p.circuit.label_sum_salt,
          deltas |-> circuit_deltas(input)], LAMBDA w0 :
    bind(CASE t.kind = "plaintext" ->
                  [w0 EXCEPT !.plaintext[t.row + 1][t.col + 1] = 1 - @]
            [] t.kind = "plaintext_salt" ->
                  [w0 EXCEPT !.plaintext_salt = AddPow(@, 0)]
            [] t.kind = "encoding_sum_salt" ->
                  [w0 EXCEPT !.label_sum_salt = AddPow(@, 0)]
            [] t.kind \in {"bit_two", "bit_two_forged"} ->
                  [w0 EXCEPT !.plaintext[t.row + 1][t.col + 1] = 2]
            [] t.kind \in {"top_bit", "top_bit_forged"} ->
                  [w0 EXCEPT !.plaintext[t.row + 1][t.col + 1] = 1]
            [] OTHER -> w0, LAMBDA w :
    bind(p.instance_columns, LAMBDA i0 :
    bind(CASE t.kind = "delta" ->
                  [i0 EXCEPT ![t.col + 1][t.row + 1] = @ + t.d]
            [] t.kind = "plaintext_hash" ->
                  [i0 EXCEPT ![BIT_COLUMNS + 1][1] = Succ(@)]
            [] t.kind = "encoding_sum_hash" ->
                  [i0 EXCEPT ![BIT_COLUMNS + 1][2] = Succ(@)]
            [] t.kind = "zero_sum" ->
                  [i0 EXCEPT ![BIT_COLUMNS + 1][3] = @ + 1]
            [] t.kind \in {"bit_two_forged", "top_bit_forged"} ->
                  bind(MockProver_run(w, i0), LAMBDA a :
                      [i0 EXCEPT ![BIT_COLUMNS + 1][1] = a.plaintext_hash.value,
                                 ![BIT_COLUMNS + 1][2] = a.label_sum_hash.value])
            [] OTHER -> i0, LAMBDA i1 :
        <<i1, w>>)))))

\* The proof inputs the happy path is run on, and those the tests change.
HonestInputs ==
    { ProofInput(p, r[1], r[2]) :
        p \in { x \in Plaintexts : Len(x) <= CHUNK_SIZE },
        r \in { <<OneBit(4), OneBit(SALT_SIZE)>>,
                <<Bits("ones", SALT_SIZE), Bits("alt", SALT_SIZE)>> } }

TamperedInputs == { x \in ProofInputs : Len(x.plaintext) <= CHUNK_SIZE }

(***************************************************************************)
(* The state machine: one call of the backend at a time.                   *)
(***************************************************************************)
None == [tag |-> "None"]
Pending == [tag |-> "Pending"]

\* ActiveEncodings::into_chunks: consecutive chunks of chunk_size encodings,
\* in order; only the last one may be shorter.
into_chunks(encodings, size) == chunks(encodings, size)

\* A backend behind `&Box<dyn Backend<F>>`: what its chunk_size() returns and
\* the plaintexts for which its commit_plaintext returns an error.
DynBackend(size, rejects) == [chunk_size |-> size, rejects |-> rejects]

\* CommitmentDataChunk::commit on such a backend: `?` returns its error.
data_chunk_commit(backend, encodings) ==
    IF plaintext_of(convert(encodings)) \in backend.rejects
    THEN Err("InternalError")
    ELSE chunk_commit(encodings, OneBit(1), OneBit(SALT_SIZE))

\* The encodings of a CommitmentData: encoding k has the value k; the bits
\* are all 1, alternate, or are 1 but for the last.
CommitPatterns == {"ones", "alt", "last_zero"}
CommitData(p, n) ==
    collect([k \in 1..n |->
        [value |-> k,
         bit |-> CASE p = "ones" -> TRUE
                   [] p = "alt" -> k % 2 = 1
                   [] OTHER -> k < n]])
CommitDatas == { CommitData(p, n) : p \in CommitPatterns, n \in 0..MaxCommitBits }

\* The backends: chunk sizes from 1, rejecting nothing or the chunks of zeros.
ZeroChunks == { collect([i \in 1..n |-> FALSE]) : n \in 1..(MaxChunkBits + 1) }
DynBackends ==
    { DynBackend(size, rejects) : size \in 1..(MaxChunkBits + 1), rejects \in { {}, ZeroChunks } }

(***************************************************************************)
(* Notary server (notary-server/src/service.rs): the session store behind  *)
(* its mutex and the handlers of concurrent requests.  Each request is a   *)
(* task of its own; a step of a task runs from one await of the store lock *)
(* to the next.                                                            *)
(***************************************************************************)
\* A session id no initialize ever returns.
UnknownSession == 0

\* The lock is free.
Unlocked == 0

\* No request has taken this slot yet.
NoRequest == [pc |-> "none", kind |-> "none"]

\* NotaryServerError::BadProverRequest(msg).into_response()
BadProverRequest(msg) == [status |-> "BadProverRequest", msg |-> msg]

\* HashMap::insert
store_insert(s, session_id, data) ==
    [k \in DOMAIN s \cup {session_id} |-> IF k = session_id THEN data ELSE s[k]]

\* The entry fetched with HashMap::get, which leaves it in the store.
store_get(s, session_id) ==
    IF session_id \in DOMAIN s
    THEN [store |-> s, data |-> [tag |-> "Some", data |-> s[session_id]]]
    ELSE [store |-> s, data |-> None]

\* HashMap::remove: the store without the entry, and the entry if there was
\* one.
store_remove(s, session_id) ==
    IF session_id \in DOMAIN s
    THEN [store |-> [k \in DOMAIN s \ {session_id} |-> s[k]],
          data |-> [tag |-> "Some", data |-> s[session_id]]]
    ELSE [store |-> s, data |-> None]

\* Some(v)
Some(v) == [tag |-> "Some", data |-> v]

\* Option::unwrap_or_default of a limit.
unwrap_or_default(o) == IF o.tag = "Some" THEN o.data ELSE 0

\* The largest limit a request can carry.
UsizeMax == 2 ^ UsizeBits - 1

\* The outcomes of `a + b` on the limits: the sum when it fits; when it
\* does not, a panic (overflow checks on) or the wrapped sum (overflow
\* checks off).
usize_add(a, b) ==
    IF a + b <= UsizeMax
    THEN { [tag |-> "Ok", value |-> a + b] }
    ELSE { [tag |-> "panic"], [tag |-> "Ok", value |-> (a + b) % (2 ^ UsizeBits)] }

\* initialize, the check of the requested transcript size: the outcomes of
\* the sum, each with whether the request passes the check.
transcript_size_check(payload) ==
    IF payload.max_sent_data.tag = "Some" \/ payload.max_recv_data.tag = "Some"
    THEN { IF requested_transcript_size.tag = "panic"
           THEN "panic"
           ELSE IF requested_transcript_size.value > MaxTranscript
           THEN "exceeds" ELSE "passes" :
           requested_transcript_size \in
               usize_add(unwrap_or_default(payload.max_sent_data),
                         unwrap_or_default(payload.max_recv_data)) }
    ELSE { "passes" }

\* The bodies of the initialize requests: malformed JSON, no limits, one
\* limit, limits within the maximum transcript size of the server, limits
\* above it, and limits whose sum does not fit the width.
Payloads ==
    { [tag |-> "Err"],
      [tag |-> "Ok", max_sent_data |-> None, max_recv_data |-> None],
      [tag |-> "Ok", max_sent_data |-> None, max_recv_data |-> Some(MaxTranscript)],
      [tag |-> "Ok", max_sent_data |-> Some(1), max_recv_data |-> Some(1)],
      [tag |-> "Ok", max_sent_data |-> Some(MaxTranscript), max_recv_data |-> Some(1)],
      [tag |-> "Ok", max_sent_data |-> Some(UsizeMax), max_recv_data |-> Some(1)] }

\* The session ids a request to upgrade may carry: an unknown one, or one
\* that Uuid::new_v4 has generated.
SessionIds == {UnknownSession} \cup 1..issued

Slots == 1..MaxRequests

\* No request has reached the server.
ServerFresh == \A r \in Slots : requests[r].pc = "none"

\* The awaits of notarize_fut with the gf2 share revealed before the VM is
\* finalized.
notarize_steps_reveal_first ==
    <<"get_channel", "AttestationRequest", "gf2.reveal", "vm.finalize", "SignedAttestation">>

\* Prover::finalize, notarize_fut: its awaits in the order of the code: the
\* channel "notarize" is opened, the AttestationRequest sent, the VM
\* finalized, the gf2 share revealed and the SignedAttestation received.
notarize_steps ==
    <<"get_channel", "AttestationRequest", "vm.finalize", "gf2.reveal", "SignedAttestation">>

\* The error finalize returns when an await of notarize_fut gives an error.
step_error(step) ==
    IF step \in {"vm.finalize", "gf2.reveal"} THEN "MpcError"
    ELSE IF step = "get_channel" THEN "MuxerError" ELSE "IOError"

\* One poll of notarize_fut: it goes through the awaits whose results have
\* arrived, and ends with the first error or after the last await.
poll_notarize_fut(done, avail) ==
    LET n == Len(avail)
        failed == n > 0 /\ avail[n] = "Err"
        passed == IF failed THEN n - 1 ELSE n
        steps == done \o [i \in 1..passed |-> notarize_steps[Len(done) + i]]
    IN  [trace |-> steps,
         res |-> IF failed THEN Err(step_error(notarize_steps[Len(steps) + 1]))
                 ELSE IF Len(steps) = Len(notarize_steps) THEN [tag |-> "Ok"]
                 ELSE Pending]

\* futures::select_biased! over notarize_fut, ot_fut and mux_fut: the first
\* of the three, in this order, that is ready.
select_biased(res, ot_fut, mux_fut) ==
    IF res.tag # "Pending" THEN "notarize_fut"
    ELSE IF ot_fut # "running" THEN "ot_fut"
    ELSE IF mux_fut # "running" THEN "mux_fut"
    ELSE "pending"

\* The encoder seeds of the notary.
Seeds == {1, 2}

\* AttestationBodyBuilder: the fields of the body finalize builds; the
\* encoding commitment, with the seed of the notary, is a field of it when
\* there is an encoding tree.
attestation_body(has_encoding_tree, seed) ==
    << [field |-> "ConnectionInfo", seed |-> 0],
       [field |-> "HandshakeData", seed |-> 0],
       [field |-> "CertificateCommitment", seed |-> 0],
       [field |-> "CertificateChainCommitment", seed |-> 0] >>
    \o IF has_encoding_tree
       THEN << [field |-> "EncodingCommitment", seed |-> seed] >>
       ELSE <<>>

\* AttestationBody::root
body_root(body) == [root_of |-> body]

\* The attestations a notary may sign: over the body of a notarization
\* with or without encoding commitment, with one seed or another.
SignedAttestations ==
    { [sig |-> "sig", header |-> [root |-> body_root(attestation_body(e, seed))]] :
        e \in BOOLEAN, seed \in Seeds }

\* The comparison of the roots left out.
root_matches_unchecked(attestation_body_, header) == TRUE

\* finalize, "Make sure the Notary signed the correct root hash".
root_matches(attestation_body_, header) == body_root(attestation_body_) = header.root

\* finalize after the exchange: the body is built, its root compared with
\* the signed one (todo!() panics when they differ), and the attestation
\* put together with the secrets.
build_attestation(has_encoding_tree, notary_encoder_seed, signed_attestation) ==
    LET attestation_body_ == attestation_body(has_encoding_tree, notary_encoder_seed)
        secrets == <<"Certificate", "ServerIdentity">>
                   \o IF has_encoding_tree THEN <<"EncodingTree">> ELSE <<>>
    IN  IF ~root_matches(attestation_body_, signed_attestation.header)
        THEN [tag |-> "panic"]
        ELSE [tag |-> "Ok",
              attestation_full |-> [sig |-> signed_attestation.sig,
                                    header |-> signed_attestation.header,
                                    body |-> attestation_body_,
                                    secrets |-> secrets]]

\* The servers verify signs for.
SupportedServers == {"www.kaggle.com", "dummyjson.com"}

\* The server names a TLSProof may carry.
ServerNames == SupportedServers \cup {"example.com"}

\* A TLSProof as verify sees it: the server name of its session info and
\* whether its substrings proof verifies against its header.
TLSProofs == [server_name : ServerNames, substrings_valid : BOOLEAN]

\* The bodies of the requests to verify_proof: malformed JSON, or the two
\* proofs, with the result generate_signature_userid would give.
VerifyProofRequests ==
    { [tag |-> "Err"] } \cup
    [tag : {"Ok"}, auth_proof : TLSProofs, attribute_proof : TLSProofs,
     generate_signature_userid : {"Ok", "Err"}]

\* service::parse_proofs
parse_proofs(auth_proof, attribute_proof) ==
    [auth_server_name |-> auth_proof.server_name,
     auth_substrings |-> auth_proof.substrings_valid,
     attr_server_name |-> attribute_proof.server_name,
     attr_substrings |-> attribute_proof.substrings_valid]

\* service::verify
verify_request(request) ==
    LET parsed == parse_proofs(request.auth_proof, request.attribute_proof)
    IN  IF parsed.attr_server_name # parsed.auth_server_name
        THEN [tag |-> "Err", error |-> BadProverRequest("Server names do not match")]
        ELSE IF ~parsed.auth_substrings \/ ~parsed.attr_substrings
        THEN [tag |-> "panic"]
        ELSE IF parsed.auth_server_name \in SupportedServers
        THEN IF request.generate_signature_userid = "Ok"
             THEN [tag |-> "Ok", signature |-> parsed.auth_server_name]
             ELSE [tag |-> "Err", error |-> BadProverRequest("generate_signature_userid")]
        ELSE [tag |-> "Err",
              error |-> BadProverRequest("Server is not in the list of supported servers")]

\* service::verify_proof: the response to a request, or the panic of the
\* unwrap of an Err of verify.
verify_proof(payload) ==
    IF payload.tag = "Err"
    THEN [tag |-> "Ok", response |-> BadProverRequest("malformed payload")]
    ELSE LET verified == verify_request(payload)
         IN  IF verified.tag = "Ok"
             THEN [tag |-> "Ok",
                   response |-> [status |-> "OK", signature |-> verified.signature]]
             ELSE [tag |-> "panic"]

\* The characters of the transcripts and keys.
Chars == {"a", "b"}

\* The strings of at most n characters.
Strings(n) == UNION { [1..k -> Chars] : k \in 0..n }

\* str::find: the index of the first occurrence of pat in s, if any.
find(s, pat) ==
    LET positions == { i \in 0..(Len(s) - Len(pat)) : SubSeq(s, i + 1, i + Len(pat)) = pat }
    IN  IF positions = {} THEN None
        ELSE Some(CHOOSE i \in positions : \A j \in positions : i <= j)

\* airdrop::parse_value: the text between start_key and the end_key that
\* follows it; the unwrap of the second find panics where there is none.
parse_value(str, start_key, end_key) ==
    LET key == start_key
        found == find(str, key)
    IN  IF found.tag = "Some"
        THEN LET start_pos == found.data
                 start == start_pos + Len(key)
                 rest == SubSeq(str, start + 1, Len(str))
                 end_found == find(rest, end_key)
             IN  IF end_found.tag = "None"
                 THEN [tag |-> "panic"]
                 ELSE [tag |-> "Ok",
                       value |-> SubSeq(str, start + 1, start + end_found.data)]
        ELSE [tag |-> "Ok", value |-> <<>>]

Init ==
    /\ call = [op |-> "none"]
    /\ ret = None
    /\ iter = 0
    /\ cur = None
    /\ advice = None
    /\ proofs = <<>>
    /\ trace = <<>>
    /\ chunk_commitments = <<>>
    /\ store = <<>>
    /\ lock = Unlocked
    /\ requests = [r \in Slots |-> NoRequest]
    /\ notarizing = {}
    /\ issued = 0

\* No call is in progress and no result is waiting for the caller.
Idle == call.op = "none" /\ ServerFresh

\* A call of Prover::commit_plaintext.
CommitPlaintext ==
    /\ Idle
    /\ \E plaintext \in Plaintexts, rng \in RngBits :
          /\ call' = [op |-> "commit_plaintext", plaintext |-> plaintext, rng |-> rng]
          /\ ret' = commit_plaintext(plaintext, rng)
    /\ iter' = 0 /\ cur' = None /\ advice' = None /\ proofs' = <<>> /\ trace' = <<>>
    /\ UNCHANGED chunk_commitments
    /\ UNCHANGED server_vars

\* A call of airdrop::parse_value.
ParseValue ==
    /\ Idle
    /\ \E str \in Strings(MaxStrLen), start_key, end_key \in Strings(MaxKeyLen) :
          /\ call' = [op |-> "parse_value", str |-> str, start_key |-> start_key,
                      end_key |-> end_key]
          /\ ret' = parse_value(str, start_key, end_key)
    /\ iter' = 0 /\ cur' = None /\ advice' = None /\ proofs' = <<>> /\ trace' = <<>>
    /\ UNCHANGED chunk_commitments
    /\ UNCHANGED server_vars

\* A call of Prover::finalize, up to the select: the substring commitment
\* config has no encodings, or has them and the encoding tree is built, or
\* has them and EncodingTree::new fails, where the unwrap panics.
FinalizeCall ==
    /\ Idle
    /\ \E encoding \in {"None", "Some", "Err"}, seed \in Seeds,
          signed_attestation \in SignedAttestations :
          /\ call' = [op |-> "finalize", encoding |-> encoding,
                      notary_encoder_seed |-> seed,
                      signed_attestation |-> signed_attestation]
          /\ IF encoding = "Err"
             THEN ret' = [tag |-> "panic"] /\ cur' = None
             ELSE /\ ret' = Pending
                  /\ cur' = [tag |-> "Notarize", pc |-> "select", avail |-> <<>>,
                             ot_fut |-> "running", mux_fut |-> "running",
                             selected |-> "none", awaiting |-> notarize_steps[1]]
    /\ iter' = 0 /\ advice' = None /\ proofs' = <<>> /\ trace' = <<>>
    /\ UNCHANGED chunk_commitments
    /\ UNCHANGED server_vars

\* The finalize in progress.
Finalizing == call.op = "finalize" /\ ret.tag = "Pending" /\ cur.tag = "Notarize"

\* The result of the next await of notarize_fut arrives.
FinalizeEvent ==
    /\ Finalizing /\ cur.pc = "select"
    /\ Len(trace) + Len(cur.avail) < Len(notarize_steps)
    /\ IF cur.avail = <<>> THEN TRUE ELSE cur.avail[Len(cur.avail)] = "Ok"
    /\ \E res \in {"Ok", "Err"} : cur' = [cur EXCEPT !.avail = Append(cur.avail, res)]
    /\ UNCHANGED <<call, ret, iter, advice, proofs, trace, chunk_commitments>>
    /\ UNCHANGED server_vars

\* The OT future becomes ready.
FinalizeOtReady ==
    /\ Finalizing /\ cur.pc = "select"
    /\ cur.ot_fut = "running"
    /\ cur' = [cur EXCEPT !.ot_fut = "ready"]
    /\ UNCHANGED <<call, ret, iter, advice, proofs, trace, chunk_commitments>>
    /\ UNCHANGED server_vars

\* The mux future becomes ready: the connection was closed, or it failed.
FinalizeMuxReady ==
    /\ Finalizing
    /\ cur.mux_fut = "running"
    /\ \E res \in {"ready Ok", "ready Err"} : cur' = [cur EXCEPT !.mux_fut = res]
    /\ UNCHANGED <<call, ret, iter, advice, proofs, trace, chunk_commitments>>
    /\ UNCHANGED server_vars

\* The task is woken and polls the select: notarize_fut first, then ot_fut,
\* then mux_fut.
FinalizeSelect ==
    /\ Finalizing /\ cur.pc = "select"
    /\ cur.avail # <<>> \/ cur.ot_fut # "running" \/ cur.mux_fut # "running"
    /\ \E polled \in { poll_notarize_fut(trace, cur.avail) } :
       \E selected \in { select_biased(polled.res, cur.ot_fut, cur.mux_fut) } :
          /\ trace' = polled.trace
          /\ IF selected = "notarize_fut"
             THEN IF polled.res.tag = "Ok"
                  THEN /\ ret' = ret
                       /\ cur' = [cur EXCEPT !.pc = "closing", !.avail = <<>>,
                                             !.selected = selected, !.awaiting = "mux_fut"]
                  ELSE /\ ret' = polled.res
                       /\ cur' = [cur EXCEPT !.pc = "done", !.avail = <<>>,
                                             !.selected = selected]
             ELSE IF selected = "ot_fut"
             THEN /\ ret' = Err("OTShutdownError")
                  /\ cur' = [cur EXCEPT !.pc = "done", !.avail = <<>>,
                                        !.selected = selected, !.ot_fut = "completed",
                                        !.awaiting = notarize_steps[Len(polled.trace) + 1]]
             ELSE IF selected = "mux_fut"
             THEN /\ ret' = Err("UnexpectedEof")
                  /\ cur' = [cur EXCEPT !.pc = "done", !.avail = <<>>,
                                        !.selected = selected, !.mux_fut = "completed",
                                        !.awaiting = notarize_steps[Len(polled.trace) + 1]]
             ELSE /\ ret' = ret
                  /\ cur' = [cur EXCEPT !.avail = <<>>,
                                        !.awaiting = notarize_steps[Len(polled.trace) + 1]]
    /\ UNCHANGED <<call, iter, advice, proofs, chunk_commitments>>
    /\ UNCHANGED server_vars

\* finalize after the select: it waits for the notary to close the
\* connection, then builds and returns the attestation.
FinalizeClose ==
    /\ Finalizing /\ cur.pc = "closing"
    /\ cur.mux_fut \in {"ready Ok", "ready Err"}
    /\ cur' = [cur EXCEPT !.pc = "done", !.mux_fut = "completed"]
    /\ IF cur.mux_fut = "ready Err"
       THEN ret' = Err("MuxerError")
       ELSE ret' = build_attestation(call.encoding = "Some", call.notary_encoder_seed,
                                     call.signed_attestation)
    /\ UNCHANGED <<call, iter, advice, proofs, trace, chunk_commitments>>
    /\ UNCHANGED server_vars

\* A request to the handler verify_proof.
VerifyProof ==
    /\ Idle
    /\ \E payload \in VerifyProofRequests :
          /\ call' = [op |-> "verify_proof", payload |-> payload]
          /\ ret' = verify_proof(payload)
    /\ iter' = 0 /\ cur' = None /\ advice' = None /\ proofs' = <<>> /\ trace' = <<>>
    /\ UNCHANGED chunk_commitments
    /\ UNCHANGED server_vars

\* A call of Prover::commit_encoding_sum.
CommitEncodingSum ==
    /\ Idle
    /\ \E encoding_sum \in 0..(MaxEncoding * MaxChunkBits), rng \in RngBits :
          /\ call' = [op |-> "commit_encoding_sum", encoding_sum |-> encoding_sum,
                      rng |-> rng]
          /\ ret' = commit_encoding_sum(encoding_sum, rng)
    /\ iter' = 0 /\ cur' = None /\ advice' = None /\ proofs' = <<>> /\ trace' = <<>>
    /\ UNCHANGED chunk_commitments
    /\ UNCHANGED server_vars

\* A call of CommitmentDataChunk::commit.
ChunkCommit ==
    /\ Idle
    /\ \E encodings \in EncodingChunks, rng_p \in {OneBit(1), OneBit(4)},
          rng_e \in {OneBit(SALT_SIZE)} :
          /\ call' = [op |-> "chunk_commit", encodings |-> encodings,
                      rng_p |-> rng_p, rng_e |-> rng_e]
          /\ ret' = chunk_commit(encodings, rng_p, rng_e)
    /\ iter' = 0 /\ cur' = None /\ advice' = None /\ proofs' = <<>> /\ trace' = <<>>
    /\ UNCHANGED chunk_commitments
    /\ UNCHANGED server_vars

\* Prover::prove is called: the iterator over the inputs is set up.
ProveCall ==
    /\ Idle
    /\ \E input \in ProveInputs : call' = [op |-> "prove", input |-> input]
    /\ ret' = Pending
    /\ iter' = 0 /\ cur' = None /\ advice' = None /\ proofs' = <<>> /\ trace' = <<>>
    /\ UNCHANGED chunk_commitments
    /\ UNCHANGED server_vars

\* The closure takes the next input and prepares its circuit input.
prove_prepare(k) ==
    LET r == prepare_circuit_input(call.input[k])
    IN  /\ iter' = k
        /\ trace' = Append(trace, <<"prepare", k>>)
        /\ advice' = None
        /\ IF r.tag = "panic"
           THEN ret' = [tag |-> "panic"] /\ cur' = None /\ proofs' = <<>>
           ELSE ret' = ret /\ cur' = r /\ proofs' = proofs

ProvePrepare ==
    /\ call.op = "prove" /\ ret.tag = "Pending" /\ cur.tag = "None"
    /\ iter < Len(call.input)
    /\ prove_prepare(iter + 1)
    /\ UNCHANGED call
    /\ UNCHANGED chunk_commitments
    /\ UNCHANGED server_vars

\* prove_create putting each new proof in front of the earlier ones.
prove_create_prepend(res_is_err) ==
    /\ advice' = synthesize(cur.instance_columns, cur.circuit)
    /\ cur' = None
    /\ IF res_is_err
       THEN /\ ret' = Err("ProvingBackendError")
            /\ proofs' = <<>>
            /\ trace' = Append(trace, <<"error", iter>>)
       ELSE /\ ret' = ret
            /\ proofs' = <<Proof(cur.instance_columns)>> \o proofs
            /\ trace' = Append(trace, <<"proof", iter>>)

\* prove_create dropping a failed proof and going on with the next input.
prove_create_continue(res_is_err) ==
    /\ advice' = synthesize(cur.instance_columns, cur.circuit)
    /\ cur' = None
    /\ ret' = ret
    /\ IF res_is_err
       THEN /\ proofs' = proofs
            /\ trace' = Append(trace, <<"error", iter>>)
       ELSE /\ proofs' = Append(proofs, Proof(cur.instance_columns))
            /\ trace' = Append(trace, <<"proof", iter>>)

\* plonk::create_proof on the prepared input: the circuit is synthesized, and
\* the proof system answers with a proof or with an error.
prove_create(res_is_err) ==
    /\ advice' = synthesize(cur.instance_columns, cur.circuit)
    /\ cur' = None
    /\ IF res_is_err
       THEN /\ ret' = Err("ProvingBackendError")
            /\ proofs' = <<>>
            /\ trace' = Append(trace, <<"error", iter>>)
       ELSE /\ ret' = ret
            /\ proofs' = Append(proofs, Proof(cur.instance_columns))
            /\ trace' = Append(trace, <<"proof", iter>>)

ProveCreate ==
    /\ call.op = "prove" /\ ret.tag = "Pending" /\ cur.tag = "Ok"
    /\ \E res_is_err \in BOOLEAN : prove_create(res_is_err)
    /\ UNCHANGED <<call, iter>>
    /\ UNCHANGED chunk_commitments
    /\ UNCHANGED server_vars

\* The iterator is exhausted: the collected proofs are returned.
ProveReturn ==
    /\ call.op = "prove" /\ ret.tag = "Pending" /\ cur.tag = "None"
    /\ iter = Len(call.input)
    /\ ret' = [tag |-> "Ok", proofs |-> proofs]
    /\ UNCHANGED <<call, iter, cur, advice, proofs, trace>>
    /\ UNCHANGED chunk_commitments
    /\ UNCHANGED server_vars

\* A test of prover.rs: MockProver::run on the (changed) proof input, then
\* verify.
MockVerify ==
    /\ Idle
    /\ \E input \in HonestInputs \cup TamperedInputs, t \in Tampers :
          /\ t.kind = "none" \/ input \in TamperedInputs
          /\ \E m \in { mock_input(input, t) } :
             \E w \in { m[2] }, instance_columns \in { m[1] } :
             \E a \in { MockProver_run(w, instance_columns) } :
                /\ call' = [op |-> "mock_verify", input |-> input, tamper |-> t]
                /\ advice' = a
                /\ ret' = verify(a)
    /\ iter' = 0 /\ cur' = None /\ proofs' = <<>> /\ trace' = <<>>
    /\ UNCHANGED chunk_commitments
    /\ UNCHANGED server_vars

\* CommitmentData::commit is called: the iterator over the chunks is set up.
CommitCall ==
    /\ Idle
    /\ \E backend \in DynBackends, encodings \in CommitDatas :
          call' = [op |-> "commit", backend |-> backend, encodings |-> encodings]
    /\ ret' = Pending
    /\ iter' = 0 /\ cur' = None /\ advice' = None /\ proofs' = <<>> /\ trace' = <<>>
    /\ chunk_commitments' = <<>>
    /\ UNCHANGED server_vars

\* collect with each new item put in front of the earlier ones.
commit_collect_prepend(r) ==
    IF r.tag = "Err"
    THEN /\ ret' = r
         /\ chunk_commitments' = <<>>
    ELSE /\ ret' = ret
         /\ chunk_commitments' = <<r>> \o chunk_commitments

\* collect::<Result<Vec<_>, _>>() takes the result for a chunk: an error ends
\* the iteration and drops what was collected.
commit_collect(r) ==
    IF r.tag = "Err"
    THEN /\ ret' = r
         /\ chunk_commitments' = <<>>
    ELSE /\ ret' = ret
         /\ chunk_commitments' = Append(chunk_commitments, r)

\* CommitmentDataChunks::next yields the next chunk and the closure commits
\* to it.
CommitNext ==
    /\ call.op = "commit" /\ ret.tag = "Pending"
    /\ \E data_chunks \in { into_chunks(call.encodings, call.backend.chunk_size) } :
          /\ iter < Len(data_chunks)
          /\ \E data_chunk \in { data_chunks[iter + 1] } :
             \E r \in { data_chunk_commit(call.backend, data_chunk) } : commit_collect(r)
    /\ iter' = iter + 1
    /\ trace' = Append(trace, <<"commit", iter + 1>>)
    /\ UNCHANGED <<call, cur, advice, proofs>>
    /\ UNCHANGED server_vars

\* The iterator is exhausted: Ok(CommitmentDetails { chunk_commitments }).
CommitReturn ==
    /\ call.op = "commit" /\ ret.tag = "Pending"
    /\ iter = Len(into_chunks(call.encodings, call.backend.chunk_size))
    /\ ret' = [tag |-> "Ok", chunk_commitments |-> chunk_commitments]
    /\ UNCHANGED <<call, iter, cur, advice, proofs, trace, chunk_commitments>>
    /\ UNCHANGED server_vars

\* Slot r is the next free one.
NextSlot(r) ==
    /\ call.op = "none"
    /\ requests[r].pc = "none"
    /\ \A q \in Slots : q < r => requests[q].pc # "none"

\* initialize, up to the await of the store lock: the payload is checked and
\* the session id generated.
ReceiveInitialize(r) ==
    /\ NextSlot(r)
    /\ \E payload \in Payloads :
          IF payload.tag = "Err"
          THEN /\ requests' = [requests EXCEPT ![r] =
                     [kind |-> "initialize", pc |-> "done", session_id |-> UnknownSession,
                      payload |-> payload,
                      data |-> None, unchanged |-> TRUE,
                      response |-> BadProverRequest("malformed payload")]]
               /\ UNCHANGED issued
          ELSE \E checked \in transcript_size_check(payload) :
               IF checked = "panic"
               THEN /\ requests' = [requests EXCEPT ![r] =
                          [kind |-> "initialize", pc |-> "done", session_id |-> UnknownSession,
                           payload |-> payload,
                           data |-> None, unchanged |-> TRUE,
                           response |-> [status |-> "panic",
                                         msg |-> "attempt to add with overflow"]]]
                    /\ UNCHANGED issued
               ELSE IF checked = "exceeds"
               THEN /\ requests' = [requests EXCEPT ![r] =
                          [kind |-> "initialize", pc |-> "done", session_id |-> UnknownSession,
                           payload |-> payload,
                           data |-> None, unchanged |-> TRUE,
                           response |-> BadProverRequest("Max transcript size requested exceeds the maximum threshold")]]
                    /\ UNCHANGED issued
               ELSE /\ requests' = [requests EXCEPT ![r] =
                          [kind |-> "initialize", pc |-> "lock", session_id |-> issued + 1,
                           payload |-> payload,
                           data |-> [max_sent_data |-> payload.max_sent_data,
                                     max_recv_data |-> payload.max_recv_data],
                           unchanged |-> TRUE, response |-> None]]
                    /\ issued' = issued + 1
    /\ UNCHANGED <<store, lock, notarizing>>
    /\ UNCHANGED backend_vars

\* upgrade_protocol, up to the await of the store lock.
ReceiveUpgrade(r) ==
    /\ NextSlot(r)
    /\ \E session_id \in SessionIds, protocol_upgrade \in {"Ws", "Tcp"} :
          requests' = [requests EXCEPT ![r] =
              [kind |-> "upgrade", pc |-> "lock", session_id |-> session_id,
               protocol_upgrade |-> protocol_upgrade,
               data |-> None, unchanged |-> TRUE, response |-> None]]
    /\ UNCHANGED <<store, lock, notarizing, issued>>
    /\ UNCHANGED backend_vars

\* store.lock().await of either handler: the task gets the lock when it is
\* free.
Lock(r) ==
    /\ requests[r].pc = "lock"
    /\ lock = Unlocked
    /\ lock' = r
    /\ requests' = [requests EXCEPT ![r].pc = "locked"]
    /\ UNCHANGED <<store, notarizing, issued>>
    /\ UNCHANGED backend_vars

\* initialize with the lock: the session data is inserted, the guard dropped
\* and the session id returned.
InitializeInsert(r) ==
    /\ requests[r].pc = "locked" /\ requests[r].kind = "initialize"
    /\ lock = r
    /\ store' = store_insert(store, requests[r].session_id, requests[r].data)
    /\ lock' = Unlocked
    /\ requests' = [requests EXCEPT ![r].pc = "done",
                                    ![r].unchanged = FALSE,
                                    ![r].response = [status |-> "OK",
                                                     session_id |-> requests[r].session_id]]
    /\ UNCHANGED <<notarizing, issued>>
    /\ UNCHANGED backend_vars

\* upgrade_protocol with the lock: the entry is removed from the store and
\* the guard dropped; without an entry the request is answered with
\* BadProverRequest.
UpgradeRemove(r) ==
    /\ requests[r].pc = "locked" /\ requests[r].kind = "upgrade"
    /\ lock = r
    /\ \E removed \in { store_remove(store, requests[r].session_id) } :
          /\ store' = removed.store
          /\ IF removed.data.tag = "Some"
             THEN requests' = [requests EXCEPT ![r].pc = "on_upgrade",
                                               ![r].data = removed.data.data,
                                               ![r].unchanged = (removed.store = store)]
             ELSE requests' = [requests EXCEPT ![r].pc = "done",
                                               ![r].unchanged = (removed.store = store),
                                               ![r].response =
                                                   BadProverRequest("Session id does not exist")]
    /\ lock' = Unlocked
    /\ UNCHANGED <<notarizing, issued>>
    /\ UNCHANGED backend_vars

\* upgrade_protocol, on_upgrade: the protocol is switched and the
\* notarization of the session starts on the connection.
UpgradeNotarize(r) ==
    /\ requests[r].pc = "on_upgrade"
    /\ notarizing' = notarizing \cup
          { [request |-> r, session_id |-> requests[r].session_id,
             notarize |-> IF requests[r].protocol_upgrade = "Ws"
                          THEN "websocket_notarize" ELSE "tcp_notarize",
             max_sent_data |-> requests[r].data.max_sent_data,
             max_recv_data |-> requests[r].data.max_recv_data] }
    /\ requests' = [requests EXCEPT ![r].pc = "done",
                                    ![r].response = [status |-> "SwitchingProtocols"]]
    /\ UNCHANGED <<store, lock, issued>>
    /\ UNCHANGED backend_vars

\* The caller takes the result (or the panic unwinds): the backend keeps no
\* state between calls.
Return ==
    /\ call.op # "none" /\ ret.tag # "Pending"
    /\ call' = [op |-> "none"]
    /\ ret' = None
    /\ iter' = 0 /\ cur' = None /\ advice' = None /\ proofs' = <<>> /\ trace' = <<>>
    /\ chunk_commitments' = <<>>
    /\ UNCHANGED server_vars

Next ==
    \/ CommitPlaintext
    \/ CommitEncodingSum
    \/ ChunkCommit
    \/ ProveCall
    \/ ProvePrepare
    \/ ProveCreate
    \/ ProveReturn
    \/ MockVerify
    \/ CommitCall
    \/ CommitNext
    \/ CommitReturn
    \/ ParseValue
    \/ FinalizeCall
    \/ FinalizeEvent
    \/ FinalizeOtReady
    \/ FinalizeMuxReady
    \/ FinalizeSelect
    \/ FinalizeClose
    \/ VerifyProof
    \/ Return
    \/ \E r \in Slots : ReceiveInitialize(r)
    \/ \E r \in Slots : ReceiveUpgrade(r)
    \/ \E r \in Slots : Lock(r)
    \/ \E r \in Slots : InitializeInsert(r)
    \/ \E r \in Slots : UpgradeRemove(r)
    \/ \E r \in Slots : UpgradeNotarize(r)

Spec == Init /\ [][Next]_vars

(***************************************************************************)
(* Properties.                                                             *)
(***************************************************************************)
\* Bit k (from 0) of a plaintext right-padded with zero bits.
PaddedBit(plaintext, k) == k < Len(plaintext) /\ plaintext[k + 1]

\* The input the prove closure is working on.
CurrentInput == call.input[iter]

\* C1: commit_plaintext called with a plaintext of more than CHUNK_SIZE bits
\* fails with the error WrongInputLength (and so returns no digest or salt).
C1_TooLongIsWrongInputLength ==
    (call.op = "commit_plaintext" /\ Len(call.plaintext) > CHUNK_SIZE)
        => ret = Err("WrongInputLength")

\* C2: for every plaintext of at most CHUNK_SIZE bits commit_plaintext returns
\* a digest that is the Poseidon hash of 15 inputs: input e (e < 14) is bits
\* 253e .. 253e + 252 of the zero-padded plaintext packed MSB first, and the
\* last input is the returned salt.
C2_PlaintextDigest ==
    (call.op = "commit_plaintext" /\ Len(call.plaintext) <= CHUNK_SIZE)
        => /\ ret.tag = "Ok"
           /\ ret.digest.arity = 15
           /\ Len(ret.digest.preimage) = 15
           /\ \A e \in 0..13 :
                 ret.digest.preimage[e + 1]
                   = { 252 - q : q \in { x \in 0..252 :
                                           PaddedBit(call.plaintext, 253 * e + x) } }
           /\ ret.digest.preimage[15] = ret.salt

C2_Witness ==
    /\ call.op = "commit_plaintext"
    /\ Len(call.plaintext) = USABLE_BITS + 1
    /\ call.plaintext[USABLE_BITS + 1]
    /\ ret.tag = "Ok"
    /\ 252 \in ret.digest.preimage[2]

\* C3: the 14 field elements commit_plaintext hashes for a plaintext are the 14
\* element cells the circuit built from the same plaintext feeds to Poseidon,
\* and with the same salt the digest of commit_plaintext is the digest the
\* circuit computes.
C3_RoundTrip ==
    (call.op = "prove" /\ advice.tag = "Ok")
        => \A rng \in RngBits :
              LET c == commit_plaintext(CurrentInput.plaintext, rng)
              IN  /\ c.tag = "Ok"
                  /\ \A j \in 1..14 : c.digest.preimage[j] = advice.plaintext[j]
                  /\ (c.salt = CurrentInput.plaintext_salt
                        => c.digest = advice.plaintext_hash)

C3_Witness ==
    /\ call.op = "prove" /\ advice.tag = "Ok"
    /\ Len(CurrentInput.plaintext) = USABLE_BITS + 1
    /\ advice.plaintext[1] # {}
    /\ advice.plaintext_hash = CurrentInput.plaintext_hash

\* C4: every salt returned by commit_plaintext and by commit_encoding_sum is
\* below 2^125.
C4_SaltBelow2Pow125 ==
    (call.op \in {"commit_plaintext", "commit_encoding_sum"} /\ ret.tag = "Ok")
        => \A x \in ret.salt : x < 125

\* C5: commit_encoding_sum(sum) returns the Poseidon hash of <<sum, salt>> with
\* the salt it returns; every record of CommitmentDataChunk::commit has
\* encoding_sum_hash = Poseidon2(encoding_sum, encoding_sum_salt), encoding_sum
\* being the sum of the chunk's converted encodings.
C5_EncodingSumDigest ==
    /\ call.op = "commit_encoding_sum"
         => /\ ret.tag = "Ok"
            /\ ret.digest = [arity |-> 2, preimage |-> <<call.encoding_sum, ret.salt>>]
    /\ (call.op = "chunk_commit" /\ ret.tag = "Ok")
         => /\ ret.encoding_sum_hash
                 = [arity |-> 2, preimage |-> <<ret.encoding_sum, ret.encoding_sum_salt>>]
            /\ Len(ret.encodings) = Len(call.encodings)
            /\ \A i \in 1..Len(call.encodings) :
                  ret.encodings[i].value = call.encodings[i].value % ConvertedRange
            /\ ret.encoding_sum = SumSeq([i \in 1..Len(ret.encodings) |->
                                             ret.encodings[i].value])

C5_Witness ==
    /\ call.op = "chunk_commit" /\ ret.tag = "Ok"
    /\ Len(call.encodings) >= 2
    /\ call.encodings[1].value >= ConvertedRange
    /\ ret.encoding_sum > 0

\* C6: the closure of prove works on the inputs one after another in input
\* order, an input being prepared only after the one before it has its proof;
\* on success prove returns one proof per input, proof k that of input k.
C6_ProofsInOrder ==
    call.op = "prove"
        => /\ \A i \in 1..Len(trace) :
                 /\ trace[i][2] = (i + 1) \div 2
                 /\ (i % 2 = 1) <=> (trace[i][1] = "prepare")
           /\ ret.tag = "Ok"
                 => /\ Len(ret.proofs) = Len(call.input)
                    /\ Len(trace) = 2 * Len(call.input)
                    /\ \A k \in 1..Len(call.input) :
                          /\ trace[2 * k][1] = "proof"
                          /\ ret.proofs[k]
                               = Proof(prepare_circuit_input(call.input[k]).instance_columns)

C6_Witness ==
    /\ call.op = "prove" /\ ret.tag = "Ok"
    /\ Len(call.input) = 2
    /\ call.input[1] # call.input[2]

\* C7: when proof creation fails for input k, prove returns
\* ProvingBackendError with none of the proofs created before, and no input
\* after k is worked on.
C7_FirstErrorOnly ==
    call.op = "prove"
        => \A i \in 1..Len(trace) :
              trace[i][1] = "error"
                => /\ i = Len(trace)
                   /\ iter = trace[i][2]
                   /\ ret = Err("ProvingBackendError")
                   /\ proofs = <<>>

C7_Witness ==
    /\ call.op = "prove"
    /\ ret = Err("ProvingBackendError")
    /\ iter = 2 /\ Len(call.input) = 3
    /\ trace[2][1] = "proof"
    /\ trace[4][1] = "error"

\* C8: a ProofInput whose plaintext is longer than CHUNK_SIZE makes prove
\* return WrongInputLength; it never panics.
C8_MalformedIsWrongInputLength ==
    (call.op = "prove" /\ iter >= 1 /\ Len(CurrentInput.plaintext) > CHUNK_SIZE)
        => ret = Err("WrongInputLength")

\* C9: whenever prepare_circuit_input returns, there are 65 instance columns,
\* the first 64 with a cell per row for the deltas and the last with three
\* cells, plaintext_hash, encoding_sum_hash and zero_sum in this order; the
\* circuit copies each of the three from the row it is in.
C9_InstanceColumns ==
    /\ (call.op = "prove" /\ cur.tag = "Ok")
         => /\ Len(cur.instance_columns) = 65
            /\ \A c \in 1..64 : Len(cur.instance_columns[c]) = USABLE_ROWS
            /\ Len(cur.instance_columns[65]) = 3
            /\ cur.instance_columns[65][1] = CurrentInput.plaintext_hash
            /\ cur.instance_columns[65][2] = CurrentInput.encoding_sum_hash
            /\ cur.instance_columns[65][3] = CurrentInput.zero_sum
    /\ (call.op = "prove" /\ advice.tag = "Ok")
         => /\ advice.expected_plaintext_hash = CurrentInput.plaintext_hash
            /\ advice.expected_label_sum_hash = CurrentInput.encoding_sum_hash
            /\ advice.zero_sum = CurrentInput.zero_sum

C9_Witness ==
    /\ call.op = "prove" /\ advice.tag = "Ok"
    /\ iter = 2
    /\ advice.expected_plaintext_hash.arity = 15
    /\ advice.expected_label_sum_hash.arity = 2
    /\ advice.zero_sum = USABLE_BITS + 1

\* C10: for every bit index k < CHUNK_SIZE, with e = k div 253 and
\* p = 3 + (k mod 253), the delta of bit k is the instance cell of column
\* p mod 64 at row 4e + (p div 64) and bit k is the advice cell of the same
\* column and row; the first three cells of row 4e hold delta 0 and bit 0.
C10_DeltasFollowBits ==
    (call.op = "prove" /\ advice.tag = "Ok")
        => /\ \A k \in 0..(CHUNK_SIZE - 1) :
                 LET e == k \div 253
                     p == 3 + (k % 253)
                     r == 4 * e + (p \div 64)
                     c == p % 64
                 IN  /\ advice.instance[c + 1][r + 1] = CurrentInput.deltas[k + 1]
                     /\ advice.bits[r + 1][c + 1]
                          = IF PaddedBit(CurrentInput.plaintext, k) THEN 1 ELSE 0
           /\ \A e \in 0..13, c \in 0..2 :
                 /\ advice.instance[c + 1][4 * e + 1] = 0
                 /\ advice.bits[4 * e + 1][c + 1] = 0

C10_Witness ==
    /\ call.op = "prove" /\ advice.tag = "Ok"
    /\ Len(CurrentInput.plaintext) = CHUNK_SIZE
    /\ CurrentInput.plaintext[CHUNK_SIZE - 1]
    /\ advice.bits[56][63] = 1
    /\ advice.instance[63][56] = CHUNK_SIZE - 1

\* A test is at the state after verify.
Mock == call.op = "mock_verify"

\* The bit cell of the checked assignment at a row and column (from 0).
BitCell(row, col) == advice.lines[row + 1].bits[col + 1]

\* Whether verify reports a failure of the gate or copy constraint `gate`.
Fails(gate) == \E i \in 1..Len(ret.failures) : ret.failures[i].gate = gate

\* C11: with deltas, zero_sum and the two hashes as the commitments give
\* them, the instance and circuit of prepare_circuit_input satisfy every gate
\* and copy constraint (verify accepts), and the cell hashed as the encoding
\* sum is zero_sum plus the deltas of the bits that are 1.
C11_HappyPathAccepts ==
    (Mock /\ call.tamper.kind = "none")
        => /\ ret.tag = "Ok"
           /\ ret.failures = <<>>
           /\ advice.label_sum[1].value
                = call.input.zero_sum
                  + SumSeq([k \in 1..Len(call.input.plaintext) |->
                               IF call.input.plaintext[k] THEN call.input.deltas[k] ELSE 0])

C11_Witness ==
    /\ Mock /\ call.tamper.kind = "none"
    /\ Len(call.input.plaintext) = CHUNK_SIZE
    /\ advice.label_sum[1].value > call.input.zero_sum
    /\ ret.tag = "Ok"

\* C12: with one plaintext bit of the witness flipped and the instance
\* unchanged, verify rejects: the plaintext digest differs from row 0.
C12_WrongPlaintextRejected ==
    (Mock /\ call.tamper.kind = "plaintext")
        => /\ advice.instance = prepare_circuit_input(call.input).instance_columns
           /\ ret.tag = "Err"
           /\ Fails("plaintext hash")

C12_Witness ==
    /\ Mock /\ call.tamper.kind = "plaintext"
    /\ call.tamper.row = 3 /\ call.tamper.col = 63
    /\ ret.tag = "Err"

\* C13: with 1 added to the plaintext salt, or to the encoding sum salt, and
\* the instance unchanged, verify rejects.
C13_WrongSaltRejected ==
    /\ (Mock /\ call.tamper.kind = "plaintext_salt")
          => /\ advice.salts[1].value # call.input.plaintext_salt
             /\ ret.tag = "Err" /\ Fails("plaintext hash")
    /\ (Mock /\ call.tamper.kind = "encoding_sum_salt")
          => /\ advice.salts[2].value # call.input.encoding_sum_salt
             /\ ret.tag = "Err" /\ Fails("label sum hash")

C13_Witness ==
    /\ Mock /\ call.tamper.kind = "encoding_sum_salt"
    /\ 0 \in call.input.encoding_sum_salt
    /\ ret.tag = "Err"

\* C14: with 1 added to the delta instance cell of a bit that is 1, verify
\* rejects.
C14_WrongDeltaRejected ==
    (Mock /\ call.tamper.kind = "delta" /\ call.tamper.d = 1
          /\ BitCell(call.tamper.row, call.tamper.col) = 1)
        => ret.tag = "Err"

C14_Witness ==
    /\ Mock /\ call.tamper.kind = "delta" /\ call.tamper.d = 1
    /\ BitCell(call.tamper.row, call.tamper.col) = 1
    /\ call.tamper.row = 3
    /\ ret.tag = "Err"

\* C15: with the delta instance cell of a bit that is 0 changed, the dot
\* product of every row is what it was and verify accepts.
C15_DeltaOfZeroBitIgnored ==
    (Mock /\ call.tamper.kind = "delta"
          /\ BitCell(call.tamper.row, call.tamper.col) = 0)
        => /\ ret.tag = "Ok"
           /\ LET base == prepare_circuit_input(call.input).instance_columns
              IN  /\ advice.instance # base
                  /\ \A r \in 1..USABLE_ROWS :
                        SumSeq([i \in 1..BIT_COLUMNS |->
                                   advice.instance[i][r] * advice.lines[r].bits[i]])
                          = SumSeq([i \in 1..BIT_COLUMNS |->
                                       base[i][r] * advice.lines[r].bits[i]])

C15_Witness ==
    /\ Mock /\ call.tamper.kind = "delta" /\ call.tamper.d = 1000
    /\ BitCell(call.tamper.row, call.tamper.col) = 0
    /\ advice.instance[call.tamper.col + 1][call.tamper.row + 1] > 1000
    /\ ret.tag = "Ok"

\* C16: with 1 added to plaintext_hash, to encoding_sum_hash or to zero_sum
\* in the public input column, verify rejects.
C16_WrongPublicScalarRejected ==
    (Mock /\ call.tamper.kind \in {"plaintext_hash", "encoding_sum_hash", "zero_sum"})
        => /\ ret.tag = "Err"
           /\ call.tamper.kind = "plaintext_hash" => Fails("plaintext hash")
           /\ call.tamper.kind # "plaintext_hash" => Fails("label sum hash")

C16_Witness ==
    /\ Mock /\ call.tamper.kind = "zero_sum"
    /\ advice.zero_sum.value = call.input.zero_sum + 1
    /\ ret.tag = "Err"

CommitChunk(k) ==
    SubSeq(call.encodings, (k - 1) * call.backend.chunk_size + 1,
           Min(k * call.backend.chunk_size, Len(call.encodings)))

\* ceil(n / chunk_size) for the commit in progress.
CommitChunkCount ==
    (Len(call.encodings) + call.backend.chunk_size - 1) \div call.backend.chunk_size

\* The backend of the commit in progress rejects chunk k.
CommitRejects(k) == plaintext_of(convert(CommitChunk(k))) \in call.backend.rejects

\* The record for chunk k is the one computed from chunk k alone.
CommitRecordOf(record, k) ==
    /\ record.original_encodings = CommitChunk(k)
    /\ record = chunk_commit(CommitChunk(k), OneBit(1), OneBit(SALT_SIZE))

\* C19: CommitmentData::commit commits to the consecutive chunks of
\* chunk_size encodings in order (only the last shorter), returns one record
\* per chunk in chunk order, ceil(n / chunk_size) in all, each computed from
\* its own chunk; when a chunk's commit fails, commit returns that first
\* error, without any record, and commits to no later chunk.
C19_ChunkIteration ==
    call.op = "commit" =>
        /\ iter <= CommitChunkCount
        /\ trace = [k \in 1..iter |-> <<"commit", k>>]
        /\ ret.tag = "Pending" =>
              /\ Len(chunk_commitments) = iter
              /\ \A k \in 1..iter : CommitRecordOf(chunk_commitments[k], k)
        /\ ret.tag = "Ok" =>
              /\ DOMAIN ret = {"tag", "chunk_commitments"}
              /\ Len(ret.chunk_commitments) = CommitChunkCount
              /\ \A k \in 1..CommitChunkCount :
                    /\ CommitRecordOf(ret.chunk_commitments[k], k)
                    /\ Len(ret.chunk_commitments[k].original_encodings)
                         = IF k < CommitChunkCount
                           THEN call.backend.chunk_size
                           ELSE Len(call.encodings) - (k - 1) * call.backend.chunk_size
                    /\ ~CommitRejects(k)
        /\ ret.tag = "Err" =>
              /\ ret = Err("InternalError")
              /\ chunk_commitments = <<>>
              /\ iter >= 1
              /\ CommitRejects(iter)
              /\ \A k \in 1..(iter - 1) : ~CommitRejects(k)

C19_Witness ==
    /\ call.op = "commit" /\ ret.tag = "Ok"
    /\ call.backend.chunk_size = 2
    /\ Len(call.encodings) = 5
    /\ Len(ret.chunk_commitments) = 3
    /\ Len(ret.chunk_commitments[3].original_encodings) = 1


\* The upgrade requests for a session id that found its entry in the store.
UpgradesServed(session_id) ==
    { r \in Slots : /\ requests[r].kind = "upgrade"
                    /\ requests[r].session_id = session_id
                    /\ requests[r].pc \in {"on_upgrade", "done"}
                    /\ requests[r].data # None }

\* The answer to an upgrade request without an entry in the store.
SessionDoesNotExist(r) ==
    /\ requests[r].kind = "upgrade" /\ requests[r].pc = "done"
    /\ requests[r].response = BadProverRequest("Session id does not exist")
    /\ requests[r].data = None
    /\ requests[r].unchanged

\* C20: among the upgrade requests for one session id at most one finds the
\* entry and starts a notarization, in any interleaving; each of the others
\* is answered with BadProverRequest; the entry is taken out of the store by
\* the request that found it; an upgrade for a session id that initialize
\* never returned is answered with BadProverRequest and leaves the store as
\* it was.
C20_SessionIdUsedOnce ==
    /\ \A session_id \in {UnknownSession} \cup 1..MaxRequests :
          /\ Cardinality(UpgradesServed(session_id)) <= 1
          /\ Cardinality({ n \in notarizing : n.session_id = session_id }) <= 1
          /\ UpgradesServed(session_id) # {} => session_id \notin DOMAIN store
    /\ \A n \in notarizing : n.request \in UpgradesServed(n.session_id)
    /\ \A r \in Slots :
          (requests[r].kind = "upgrade" /\ requests[r].pc = "done")
              => \/ /\ r \in UpgradesServed(requests[r].session_id)
                    /\ \E n \in notarizing : n.request = r
                 \/ SessionDoesNotExist(r)
    /\ \A r \in Slots :
          (/\ requests[r].kind = "upgrade"
           /\ requests[r].session_id = UnknownSession
           /\ requests[r].pc \notin {"lock", "locked"})
              => SessionDoesNotExist(r)
    /\ lock # Unlocked => requests[lock].pc = "locked"

C20_Witness ==
    \E r, q \in Slots :
        /\ r # q
        /\ requests[r].kind = "upgrade" /\ requests[q].kind = "upgrade"
        /\ requests[r].session_id = requests[q].session_id
        /\ requests[r].session_id # UnknownSession
        /\ requests[r].pc = "done" /\ requests[q].pc = "done"
        /\ \E n \in notarizing : n.request = r
        /\ SessionDoesNotExist(q)

\* The bit cells of a row with each cell 0 or 1.
BinaryLine(line) == \A i \in 1..CELLS_PER_ROW : line.bits[i] \in {0, 1}

\* The sum over c of bit_c * 2^(255 - 64 r - c) for the bit cells of a row
\* that holds limb r.
LimbValue(line, r) ==
    { 255 - CELLS_PER_ROW * r - c : c \in { x \in 0..(CELLS_PER_ROW - 1) : line.bits[x + 1] = 1 } }

\* The 256-bit MSB-first value of the 4 x 64 bit cells of element e (from 0).
ElementValue(e) ==
    UNION { LimbValue(advice.lines[4 * e + r + 1], r) : r \in 0..3 }

\* The fold_sum row that sums the limbs of element e (from 0): it comes after
\* the rows of the dot-product tree and the row of the label sum.
ElementFold(e) == advice.folds[Len(advice.folds) - FULL_FIELD_ELEMENTS + e + 1]

\* C22: compose limb r, and no other compose gate, is enabled on row
\* 4e + r, where it holds exactly when expected_limbs is the sum over c of
\* bit_c * 2^(255 - 64r - c); the four expected_limbs cells of element e are
\* the inputs of one sum4 row whose sum is input e of Poseidon15, and in an
\* accepted assignment that cell is the 256-bit MSB-first value of the
\* element's bit cells.
C22_LimbComposition ==
    Mock =>
        /\ Len(advice.lines) = 4 * FIELD_ELEMENTS
        /\ \A e \in 0..(FIELD_ELEMENTS - 1), r \in 0..3 :
              LET line == advice.lines[4 * e + r + 1]
              IN  /\ line.at = 4 * e + r
                  /\ line.compose = r
                  /\ line.limb.column = <<"expected_limbs", 0>>
                  /\ line.limb.row = 4 * e + r
                  /\ BinaryLine(line) =>
                        (gate_compose_limb(line, r) <=> line.limb.value = LimbValue(line, r))
        /\ \A e \in 0..(FIELD_ELEMENTS - 1) :
              /\ ElementFold(e).selector = "sum4"
              /\ ElementFold(e).from
                    = [r \in 1..4 |-> advice.lines[4 * e + r].limb]
              /\ advice.plaintext[e + 1] = ElementFold(e).sum
              /\ advice.plaintext_hash.value.preimage[e + 1] = ElementFold(e).sum.value
              /\ ret.tag = "Ok" => ElementFold(e).sum.value = ElementValue(e)

C22_Witness ==
    /\ Mock /\ ret.tag = "Ok"
    /\ Len(call.input.plaintext) = CHUNK_SIZE
    /\ \E r \in 1..3 : advice.lines[4 * (FIELD_ELEMENTS - 1) + r + 1].limb.value # {}
    /\ ElementValue(FIELD_ELEMENTS - 1) # {}

\* The cells the fold_sum rows i..j take as inputs, in order.
RECURSIVE FoldInputs(_, _)
FoldInputs(i, j) ==
    IF i > j THEN <<>> ELSE advice.folds[i].from \o FoldInputs(i + 1, j)

\* The sums of the fold_sum rows i..j, in order.
FoldSums(i, j) == [k \in 1..(j - i + 1) |-> advice.folds[i + k - 1].sum]

\* The dot product cells of the 56 rows, in order.
DotProducts == [n \in 1..Len(advice.lines) |-> advice.lines[n].dot_product]

\* The field sum of the values of the 56 dot product cells.
DotProductTotal == SumSeq([n \in 1..Len(advice.lines) |-> advice.lines[n].dot_product.value])

\* C23: the dot product gate is on all 56 bit rows and holds exactly when
\* dp_r is the sum over c of delta(r, c) * bit(r, c); compute_58_cell_sum sums
\* the 56 cells by 14 sum4 rows, then 4 rows over chunks of 4, 4, 4 and 2
\* cells (sum4, sum4, sum4, sum2), then one sum4 row; every chunk has 2 or 4
\* cells, every cell enters the rows of its level once, in order, and in an
\* accepted assignment the last sum is the sum of the 56 dot products.
C23_DotProductFold ==
    Mock =>
        /\ Len(advice.folds) = 19 + 1 + FULL_FIELD_ELEMENTS
        /\ Len(advice.lines) = USEFUL_ROWS
        /\ \A n \in 1..USEFUL_ROWS :
              LET line == advice.lines[n]
              IN  /\ line.dot_product.row = n - 1
                  /\ gate_dot_product(advice, line)
                        <=> line.dot_product.value
                              = SumSeq([c \in 1..CELLS_PER_ROW |->
                                           advice.instance[c][n] * line.bits[c]])
        /\ \A k \in 1..Len(advice.folds) : advice.folds[k].assert_ok
        /\ \A k \in 1..14 : advice.folds[k].size = 4 /\ advice.folds[k].selector = "sum4"
        /\ [k \in 1..4 |-> advice.folds[14 + k].size] = <<4, 4, 4, 2>>
        /\ [k \in 1..4 |-> advice.folds[14 + k].selector] = <<"sum4", "sum4", "sum4", "sum2">>
        /\ advice.folds[19].size = 4 /\ advice.folds[19].selector = "sum4"
        /\ FoldInputs(1, 14) = DotProducts
        /\ FoldInputs(15, 18) = FoldSums(1, 14)
        /\ FoldInputs(19, 19) = FoldSums(15, 18)
        /\ ret.tag = "Ok" => advice.folds[19].sum.value = DotProductTotal

C23_Witness ==
    /\ Mock /\ ret.tag = "Ok"
    /\ call.tamper.kind = "none"
    /\ advice.lines[USEFUL_ROWS].dot_product.value > 0
    /\ advice.folds[18].sum.value > 0
    /\ advice.folds[19].sum.value = DotProductTotal

\* The fold_sum row of the label sum: the one after the dot-product tree.
LabelFold == advice.folds[20]

\* C24: the first input of Poseidon2 is the sum cell of a sum2 row whose two
\* inputs are the last sum of the dot-product tree and the zero_sum cell, the
\* zero_sum cell holding row 2 of the public input column; the second input
\* is the cell of row 1 of the salts column, which holds the encoding sum
\* salt; in an accepted assignment the first input is the sum of the 56 dot
\* products plus zero_sum.
C24_EncodingSum ==
    Mock =>
        /\ Len(advice.label_sum) = 2
        /\ advice.label_sum[1].column = <<"scratch_space", 4>>
        /\ advice.label_sum[1] = LabelFold.sum
        /\ LabelFold.selector = "sum2" /\ LabelFold.size = 2
        /\ LabelFold.from[1].column = <<"scratch_space", 4>>
        /\ LabelFold.from = <<advice.folds[19].sum, advice.zero_sum>>
        /\ advice.zero_sum.column = <<"scratch_space", 0>>
        /\ advice.zero_sum.value = advice.instance[BIT_COLUMNS + 1][2 + 1]
        /\ advice.label_sum[2].column = <<"salts", 0>>
        /\ advice.label_sum[2].row = 1
        /\ advice.label_sum[2] = advice.salts[2]
        /\ advice.label_sum_hash.value.arity = 2
        /\ advice.label_sum_hash.value.preimage
              = <<LabelFold.sum.value, advice.salts[2].value>>
        /\ call.tamper.kind # "encoding_sum_salt"
              => advice.salts[2].value = call.input.encoding_sum_salt
        /\ ret.tag = "Ok"
              => LabelFold.sum.value
                    = DotProductTotal + advice.instance[BIT_COLUMNS + 1][2 + 1]

C24_Witness ==
    /\ Mock /\ ret.tag = "Ok"
    /\ DotProductTotal > 0
    /\ advice.zero_sum.value > 0
    /\ LabelFold.sum.value = DotProductTotal + advice.zero_sum.value
    /\ advice.salts[2].value # advice.salts[1].value

\* The copy constraint of the given name.
CopyNamed(name) ==
    advice.copies[CHOOSE k \in 1..Len(advice.copies) : advice.copies[k].name = name]

\* C25: Poseidon15 is fed the 14 element cells in element order and then
\* the plaintext salt cell (row 0 of the salts column), and its output is
\* constrained to equal row 0 of the public input column; the output of
\* Poseidon2 is constrained to equal row 1; neither output is bound to the
\* row of the other.
C25_HashBindings ==
    Mock =>
        /\ Len(advice.plaintext) = FIELD_ELEMENTS + 1
        /\ \A e \in 0..(FIELD_ELEMENTS - 1) : advice.plaintext[e + 1] = ElementFold(e).sum
        /\ advice.plaintext[FIELD_ELEMENTS + 1] = advice.salts[1]
        /\ advice.salts[1].column = <<"salts", 0>> /\ advice.salts[1].row = 0
        /\ advice.plaintext_hash.column = <<"poseidon_rate15", 0>>
        /\ advice.plaintext_hash.value.arity = FIELD_ELEMENTS + 1
        /\ advice.plaintext_hash.value.preimage
              = [i \in 1..(FIELD_ELEMENTS + 1) |-> advice.plaintext[i].value]
        /\ advice.label_sum_hash.column = <<"poseidon_rate2", 0>>
        /\ Cardinality({ k \in 1..Len(advice.copies) :
                           advice.copies[k].name \in {"plaintext hash", "label sum hash"} }) = 2
        /\ CopyNamed("plaintext hash").a = advice.plaintext_hash
        /\ CopyNamed("plaintext hash").b.column = <<"advice_from_instance", 0>>
        /\ CopyNamed("plaintext hash").b.row = 1
        /\ CopyNamed("plaintext hash").b.value = advice.instance[BIT_COLUMNS + 1][0 + 1]
        /\ CopyNamed("label sum hash").a = advice.label_sum_hash
        /\ CopyNamed("label sum hash").b.column = <<"advice_from_instance", 0>>
        /\ CopyNamed("label sum hash").b.row = 0
        /\ CopyNamed("label sum hash").b.value = advice.instance[BIT_COLUMNS + 1][1 + 1]
        /\ ret.tag = "Ok" =>
              /\ advice.instance[BIT_COLUMNS + 1][0 + 1].arity = FIELD_ELEMENTS + 1
              /\ advice.instance[BIT_COLUMNS + 1][1 + 1].arity = 2

C25_Witness ==
    /\ Mock /\ ret.tag = "Ok"
    /\ advice.instance[BIT_COLUMNS + 1][0 + 1] = advice.plaintext_hash.value
    /\ advice.instance[BIT_COLUMNS + 1][1 + 1] = advice.label_sum_hash.value
    /\ advice.plaintext_hash.value.preimage[FIELD_ELEMENTS + 1] = call.input.plaintext_salt
    /\ call.input.plaintext_salt # call.input.encoding_sum_salt

\* The scratch rows synthesize uses, in the order it uses them: the rows of
\* the fold_sum calls of the dot product tree, the row of the zero_sum
\* copy, the row of the label sum and the rows of the element sums.
ScratchRows ==
    [i \in 1..(Len(advice.folds) + 1) |->
        IF i <= advice.tree_offset THEN advice.folds[i].row
        ELSE IF i = advice.tree_offset + 1 THEN advice.zero_sum.row
        ELSE advice.folds[i - 1].row]

\* C30: every fold_sum call and the zero_sum copy use a scratch row of
\* their own (0..13, 14..17 and 18 for the dot product tree, 19 for
\* zero_sum, 20 for the encoding sum, 21..34 for the element sums), all
\* below USEFUL_ROWS, with one sum selector per row, and the offset
\* compute_58_cell_sum returns is the next free row.
C30_ScratchRows ==
    Mock =>
        /\ Len(advice.folds) = 34
        /\ ScratchRows = [i \in 1..35 |-> i - 1]
        /\ \A i \in 1..35 : ScratchRows[i] < USEFUL_ROWS
        /\ \A i, j \in 1..35 : i # j => ScratchRows[i] # ScratchRows[j]
        /\ \A i, j \in 1..34 :
              advice.folds[i].row = advice.folds[j].row
                  => advice.folds[i].selector = advice.folds[j].selector
        /\ \A i \in 1..34 : advice.folds[i].selector \in {"sum4", "sum2"}
        /\ \A i \in 1..34 : \A c \in 1..Len(advice.folds[i].copied) :
              advice.folds[i].copied[c].row = advice.folds[i].row
        /\ \A i \in 1..34 : advice.folds[i].sum.row = advice.folds[i].row
        /\ advice.tree_offset = 19
        /\ advice.tree_offset \notin { advice.folds[i].row : i \in 1..19 }
        /\ \A r \in 0..(advice.tree_offset - 1) :
              r \in { advice.folds[i].row : i \in 1..19 }
        /\ advice.zero_sum.column = <<"scratch_space", 0>>

C30_Witness ==
    /\ Mock /\ ret.tag = "Ok"
    /\ advice.folds[18].selector = "sum2"
    /\ advice.folds[19].row = 18
    /\ advice.zero_sum.row = 19
    /\ advice.folds[34].row = 34
    /\ advice.folds[34].sum.value # {}

\* The transcript size a session of the store allows: max_sent_data plus
\* max_recv_data, each 0 if absent.
TranscriptSize(data) ==
    unwrap_or_default(data.max_sent_data) + unwrap_or_default(data.max_recv_data)

\* The initialize requests that were answered.
Initialized == { r \in Slots : requests[r].kind = "initialize" /\ requests[r].pc = "done" }

\* The size an initialize request asks for, the limits being 0 if absent.
RequestedSize(payload) ==
    unwrap_or_default(payload.max_sent_data) + unwrap_or_default(payload.max_recv_data)

\* C26: every session in the store has max_sent_data + max_recv_data (0 if
\* absent) within notarization_config.max_transcript_size; an initialize
\* request above the limit, or with a malformed payload, is answered with
\* BadProverRequest and leaves the store unchanged; an accepted initialize
\* inserts one entry under a fresh session id.
C26_TranscriptLimit ==
    /\ \A session_id \in DOMAIN store : TranscriptSize(store[session_id]) <= MaxTranscript
    /\ \A r \in Initialized :
          IF requests[r].payload.tag = "Err"
          THEN /\ requests[r].response.status = "BadProverRequest"
               /\ requests[r].unchanged
          ELSE IF RequestedSize(requests[r].payload) > MaxTranscript
          THEN /\ requests[r].response.status = "BadProverRequest"
               /\ requests[r].unchanged
          ELSE /\ requests[r].response.status = "OK"
               /\ requests[r].response.session_id = requests[r].session_id
               /\ requests[r].session_id # UnknownSession
               /\ ~requests[r].unchanged
               /\ \A q \in Slots \ {r} :
                     requests[q].kind = "initialize"
                         => requests[q].session_id # requests[r].session_id
    /\ Cardinality(DOMAIN store)
          <= Cardinality({ r \in Initialized : requests[r].response.status = "OK" })

\* The call of parse_value in progress.
Parsed == call.op = "parse_value"

\* Whether pat occurs in s.
Occurs(s, pat) == \E i \in 0..(Len(s) - Len(pat)) : SubSeq(s, i + 1, i + Len(pat)) = pat

\* The index of the first occurrence of pat in s at or after from.
FirstFrom(s, pat, from) ==
    CHOOSE i \in from..(Len(s) - Len(pat)) :
        /\ SubSeq(s, i + 1, i + Len(pat)) = pat
        /\ \A j \in from..(i - 1) : SubSeq(s, j + 1, j + Len(pat)) # pat

\* Whether pat occurs in s at or after from.
OccursFrom(s, pat, from) ==
    \E i \in from..(Len(s) - Len(pat)) : SubSeq(s, i + 1, i + Len(pat)) = pat

\* Where the value of the call starts: after the first start_key.
ValueStart == FirstFrom(call.str, call.start_key, 0) + Len(call.start_key)

\* C21: parse_value returns the text between the first start_key and the
\* next end_key after it; when start_key is absent, or no end_key follows
\* it, it returns the empty string, without panicking.
C21_ParseValueOrEmpty ==
    Parsed =>
        /\ ret.tag = "Ok"
        /\ IF Occurs(call.str, call.start_key)
              /\ OccursFrom(call.str, call.end_key, ValueStart)
           THEN ret.value = SubSeq(call.str, ValueStart + 1,
                                   FirstFrom(call.str, call.end_key, ValueStart))
           ELSE ret.value = <<>>

\* C29: verify returns a signature only when the two proofs name the same
\* server and the server is supported; when the names differ, the server
\* is unsupported or the signature is not generated, verify returns
\* BadProverRequest and verify_proof answers with an error response
\* instead of aborting.
C29_VerifyAnswersErrors ==
    (call.op = "verify_proof" /\ call.payload.tag = "Ok") =>
        LET auth == call.payload.auth_proof.server_name
            attr == call.payload.attribute_proof.server_name
            verified == verify_request(call.payload)
        IN  /\ verified.tag = "Ok" => (auth = attr /\ auth \in SupportedServers)
            /\ (auth # attr \/ auth \notin SupportedServers
                    \/ call.payload.generate_signature_userid = "Err")
                  => /\ verified.tag = "Err"
                     /\ verified.error.status = "BadProverRequest"
                     /\ ret.tag = "Ok"
                     /\ ret.response.status = "BadProverRequest"

\* The place of a step in the steps notarize_fut has gone through, 0 if it
\* has not happened.
StepAt(step) ==
    IF \E i \in 1..Len(trace) : trace[i] = step
    THEN CHOOSE i \in 1..Len(trace) : trace[i] = step
    ELSE 0

\* A call of finalize, in progress or returned.
Finalize == call.op = "finalize" /\ cur.tag = "Notarize"

\* C27: in finalize the AttestationRequest is sent, then the VM finalized,
\* then the gf2 share revealed, and only then the SignedAttestation
\* awaited; when the select finds the OT future or the mux future complete
\* while the exchange is not, finalize returns OTShutdownError,
\* respectively UnexpectedEof, and no AttestationFull.
C27_NotarizeExchange ==
    Finalize =>
        /\ \A i, j \in 1..Len(trace) : i # j => trace[i] # trace[j]
        /\ StepAt("vm.finalize") > 0
              => /\ StepAt("AttestationRequest") > 0
                 /\ StepAt("AttestationRequest") < StepAt("vm.finalize")
        /\ StepAt("gf2.reveal") > 0
              => StepAt("vm.finalize") > 0 /\ StepAt("vm.finalize") < StepAt("gf2.reveal")
        /\ StepAt("SignedAttestation") > 0
              => StepAt("gf2.reveal") > 0 /\ StepAt("gf2.reveal") < StepAt("SignedAttestation")
        /\ cur.awaiting = "SignedAttestation"
              => /\ StepAt("AttestationRequest") > 0
                 /\ StepAt("vm.finalize") > 0
                 /\ StepAt("gf2.reveal") > 0
                 /\ StepAt("SignedAttestation") = 0
        /\ cur.ot_fut = "completed"
              => /\ ret = Err("OTShutdownError")
                 /\ StepAt("SignedAttestation") = 0
        /\ (cur.mux_fut = "completed" /\ StepAt("SignedAttestation") = 0)
              => ret = Err("UnexpectedEof")
        /\ ret.tag = "Ok"
              => /\ trace = <<"get_channel", "AttestationRequest", "vm.finalize",
                              "gf2.reveal", "SignedAttestation">>
                 /\ cur.ot_fut # "completed"
        /\ ret.tag = "Err" => ret.error \in {"OTShutdownError", "UnexpectedEof", "MpcError",
                                             "MuxerError", "IOError"}

C27_Witness ==
    /\ Finalize
    /\ ret = Err("OTShutdownError")
    /\ cur.ot_fut = "completed"
    /\ cur.awaiting = "SignedAttestation"
    /\ trace = <<"get_channel", "AttestationRequest", "vm.finalize", "gf2.reveal">>

\* The fields of an attestation body.
BodyFields(body) == { body[i].field : i \in 1..Len(body) }

\* C28: an AttestationFull returned by finalize has header.root equal to
\* the root of the body the prover built (connection info, handshake data,
\* the two certificate commitments, and the encoding commitment exactly
\* when the substring config has encodings), and its secrets hold an
\* EncodingTree exactly when the body holds an EncodingCommitment.
C28_SignedRootIsOwnRoot ==
    (call.op = "finalize" /\ ret.tag = "Ok") =>
        LET full == ret.attestation_full
        IN  /\ full.header = call.signed_attestation.header
            /\ full.sig = call.signed_attestation.sig
            /\ full.header.root = body_root(full.body)
            /\ {"ConnectionInfo", "HandshakeData", "CertificateCommitment",
                 "CertificateChainCommitment"} \subseteq BodyFields(full.body)
            /\ BodyFields(full.body) \subseteq
                   {"ConnectionInfo", "HandshakeData", "CertificateCommitment",
                    "CertificateChainCommitment", "EncodingCommitment"}
            /\ "EncodingCommitment" \in BodyFields(full.body) <=> call.encoding = "Some"
            /\ \A i \in 1..Len(full.body) :
                  full.body[i].field = "EncodingCommitment"
                      => full.body[i].seed = call.notary_encoder_seed
            /\ (\E i \in 1..Len(full.secrets) : full.secrets[i] = "EncodingTree")
                  <=> "EncodingCommitment" \in BodyFields(full.body)

C28_Witness ==
    /\ call.op = "finalize" /\ ret.tag = "Ok"
    /\ call.encoding = "Some"
    /\ call.notary_encoder_seed = 2
    /\ Len(ret.attestation_full.body) = 5
    /\ Len(ret.attestation_full.secrets) = 3

====
